---- MODULE Spec2Model ----
(***************************************************************************)
(* Growth-chart form (shiricson7/growth-chart).                            *)
(*                                                                         *)
(* Part I   resident-identifier parser    src/app/page.tsx                 *)
(*          (normalizeResidentId, getAgeMonths, getSexKey,                 *)
(*           parseResidentId)                                              *)
(* Part II  reference-table parser        src/unnamed/part_002             *)
(*          (parseCsvLine, parseGrowthCsv)                                 *)
(* Part III reference-table endpoint      src/unnamed/part_002 (GET, cache)*)
(* Part IV  chart geometry                src/unnamed/part_003             *)
(*          (MetricChart) and src/app/page.tsx (injectionEvents)           *)
(* Part V   visits of the page            src/app/page.tsx                 *)
(*          (setVisitStateFromRows, diffDays, handleSubmit,                *)
(*           handleEditVisit, handleDeleteVisit, handleReset)              *)
(* Part VI  reference tables of the page  src/app/page.tsx                 *)
(*          (the loading effect, heightCurves, weightCurves)               *)
(*                                                                         *)
(* A JavaScript string is a sequence of one-character strings.  A Date is  *)
(* the record of its local calendar fields [year, month (0..11), date].    *)
(***************************************************************************)
EXTENDS Integers, Sequences, FiniteSets, TLC

VARIABLES
    \* Part I
    value,          \* the raw resident-identifier string handed to the parser
    referenceDate,  \* the reference Date (visit date)
    ageInfo,        \* what parseResidentId returned (Null before the call)
    sexKey,         \* what getSexKey returned
    rpc,            \* position in the render: "input" -> "parsed" -> "done"
    \* Part II
    content,        \* the text handed to parseGrowthCsv
    table,          \* what parseGrowthCsv returned (Null before the call)
    cpc,            \* "text" -> "parsed"
    \* Part III
    files,          \* the text of each metric's source file
    cache,          \* the module-level Map: metric -> response, Null when absent
    req,            \* the GET requests of this process, in order of arrival
    reads,          \* per metric: fs.readFile calls made
    parses,         \* per metric: parseGrowthCsv calls made
    \* Part IV
    props,          \* the props handed to MetricChart
    scene,          \* what MetricChart rendered (Null before the render)
    \* Part V
    visitRows,      \* the visit rows of the last fetch, as the store returned them
    focusId,        \* the focusId handed to setVisitStateFromRows (NoId: none)
    visits,         \* React state: visits
    currentVisit,   \* React state: currentVisit
    previousVisit,  \* React state: previousVisit
    elapsedDays,    \* the elapsed days the render shows (none without a pair)
    vpc,            \* "fetched": rows wait for setVisitStateFromRows; "set"
    store,          \* the rows of the patient in the table visits
    nextId,         \* ids stand for the uuids of the rows, numbered by creation
    currentPatient, \* React state: currentPatient
    editingVisitId, \* React state: editingVisitId
    isLoading,      \* React state: isLoading
    deletingVisitId,\* React state: deletingVisitId
    status,         \* React state: status (which message)
    submit,         \* the handleSubmit call in flight: position and locals
    del,            \* the handleDeleteVisit call in flight: position and locals
    form,           \* React state: form
    patients,       \* the rows of the table patients
    \* Part VI
    active,         \* the flag of the table-loading effect
    load,           \* per metric: where loadTable stands and how it ended
    heightTable,    \* React state: heightTable
    weightTable,    \* React state: weightTable
    setCalls        \* per metric: calls of setHeightTable / setWeightTable made

resVars == <<value, referenceDate, ageInfo, sexKey, rpc>>
csvVars == <<content, table, cpc>>
getVars == <<files, cache, req, reads, parses>>
chartVars == <<props, scene>>
visitStateVars == <<visitRows, focusId, visits, currentVisit, previousVisit, elapsedDays>>
visitVars == <<visitStateVars, vpc, store, nextId, currentPatient, editingVisitId, isLoading,
               deletingVisitId, status, submit, del, form, patients>>
tableVars == <<active, load, heightTable, weightTable, setCalls>>
vars == <<resVars, csvVars, getVars, chartVars, visitVars, tableVars>>
\* what the actions of one part leave alone
notRes == <<csvVars, getVars, chartVars, visitVars, tableVars>>
notCsv == <<resVars, getVars, chartVars, visitVars, tableVars>>
notGet == <<resVars, csvVars, chartVars, visitVars, tableVars>>
notChart == <<resVars, csvVars, getVars, visitVars, tableVars>>
notVisit == <<resVars, csvVars, getVars, chartVars, tableVars>>
notTables == <<resVars, csvVars, getVars, chartVars, visitVars>>

\* JavaScript null, for object-valued and for string-valued results.
Null == [isNull |-> TRUE]
NullKey == "null"

(***************************************************************************)
(* Part I.  Resident-identifier parser                                     *)
(***************************************************************************)

DigitChars == <<"0", "1", "2", "3", "4", "5", "6", "7", "8", "9">>
Digit == {DigitChars[i] : i \in 1..Len(DigitChars)}
DigitValue(c) == (CHOOSE i \in 1..Len(DigitChars) : DigitChars[i] = c) - 1

\* /\D/g : every character that is not one of 0-9
IsNonDigit(c) == c \notin Digit

\* a plausible slip: only the hyphen is removed
normalizeResidentIdHyphenOnly(v) == SelectSeq(v, LAMBDA c : c # "-")
\* value.replace(/\D/g, "")
normalizeResidentId(v) == SelectSeq(v, LAMBDA c : ~IsNonDigit(c))

\* Number.parseInt(s, 10) of a string of decimal digits (digits.slice(a, b))
RECURSIVE ParseDigits(_)
ParseDigits(s) ==
    IF Len(s) = 0 THEN 0
    ELSE 10 * ParseDigits(SubSeq(s, 1, Len(s) - 1)) + DigitValue(s[Len(s)])

\* the 5/6 codes mapped to the wrong century
centuryMapSwapped ==
    [c \in {"1", "2"} |-> 1900] @@ [c \in {"3", "4", "5", "6", "7", "8"} |-> 2000]
centuryMap ==
    [c \in {"1", "2", "5", "6"} |-> 1900] @@ [c \in {"3", "4", "7", "8"} |-> 2000]

\* centuryMap[genderCode]; a missing key gives undefined, which is falsy like 0
CenturyOf(genderCode) ==
    IF genderCode \in DOMAIN centuryMap THEN centuryMap[genderCode] ELSE 0

\* Days of month index mi (0..11) of year y in the Date object's calendar.
DateIsLeap(y) == (y % 4 = 0 /\ y % 100 # 0) \/ y % 400 = 0
DateDaysInMonth(y, mi) ==
    IF mi = 1 THEN (IF DateIsLeap(y) THEN 29 ELSE 28)
    ELSE IF mi \in {3, 5, 8, 10} THEN 30 ELSE 31

\* new Date(year, monthIndex, day) for year >= 100, monthIndex >= 0, day >= 1:
\* an overflowing month or day rolls over into the next year or month.  (Local
\* time in a zone that skips no calendar day, as Asia/Seoul.)
RECURSIVE NewDate(_, _, _)
NewDate(y, mi, d) ==
    IF mi > 11 THEN NewDate(y + 1, mi - 12, d)
    ELSE IF d > DateDaysInMonth(y, mi) THEN NewDate(y, mi + 1, d - DateDaysInMonth(y, mi))
    ELSE [year |-> y, month |-> mi, date |-> d]

\* the month difference taken the wrong way round
getAgeMonthsMonthSwapped(birth, onDate) ==
    LET months == (onDate.year - birth.year) * 12 + (birth.month - onDate.month)
    IN  IF onDate.date < birth.date THEN months - 1 ELSE months
\* the day comparison with <= in place of <
getAgeMonthsOffByOne(birth, onDate) ==
    LET months == (onDate.year - birth.year) * 12 + (onDate.month - birth.month)
    IN  IF onDate.date <= birth.date THEN months - 1 ELSE months
getAgeMonths(birth, onDate) ==
    LET months == (onDate.year - birth.year) * 12 + (onDate.month - birth.month)
    IN  IF onDate.date < birth.date THEN months - 1 ELSE months

\* the accessor made to wait for a complete 13-digit identifier
getSexKeyNeedsFullId(v) ==
    LET digits == normalizeResidentId(v)
    IN  IF Len(digits) < 13 THEN NullKey
        ELSE IF digits[7] \in {"1", "3", "5", "7"} THEN "1"
        ELSE IF digits[7] \in {"2", "4", "6", "8"} THEN "2"
        ELSE NullKey
getSexKey(v) ==
    LET digits == normalizeResidentId(v)
    IN  IF Len(digits) < 7 THEN NullKey
        ELSE IF digits[7] \in {"1", "3", "5", "7"} THEN "1"
        ELSE IF digits[7] \in {"2", "4", "6", "8"} THEN "2"
        ELSE NullKey

\* the date is used as constructed, rolled over or not
parseResidentIdNoRevalidate(v, refDate) ==
    LET digits == normalizeResidentId(v)
    IN  IF Len(digits) # 13 THEN Null
        ELSE
            LET yy == ParseDigits(SubSeq(digits, 1, 2))
                mm == ParseDigits(SubSeq(digits, 3, 4))
                dd == ParseDigits(SubSeq(digits, 5, 6))
                century == CenturyOf(digits[7])
            IN  IF century = 0 \/ mm < 1 \/ mm > 12 \/ dd < 1 \/ dd > 31 THEN Null
                ELSE
                    LET birth == NewDate(century + yy, mm - 1, dd)
                        ageMonths == getAgeMonths(birth, refDate)
                    IN  IF ageMonths < 0 THEN Null
                        ELSE [birth |-> birth, ageMonths |-> ageMonths]
\* a birth after the reference date is let through
parseResidentIdKeepNegative(v, refDate) ==
    LET digits == normalizeResidentId(v)
    IN  IF Len(digits) # 13 THEN Null
        ELSE
            LET yy == ParseDigits(SubSeq(digits, 1, 2))
                mm == ParseDigits(SubSeq(digits, 3, 4))
                dd == ParseDigits(SubSeq(digits, 5, 6))
                century == CenturyOf(digits[7])
            IN  IF century = 0 \/ mm < 1 \/ mm > 12 \/ dd < 1 \/ dd > 31 THEN Null
                ELSE
                    LET year == century + yy
                        birth == NewDate(year, mm - 1, dd)
                    IN  IF birth.year # year \/ birth.month # mm - 1 \/ birth.date # dd
                        THEN Null
                        ELSE [birth |-> birth, ageMonths |-> getAgeMonths(birth, refDate)]
parseResidentId(v, refDate) ==
    LET digits == normalizeResidentId(v)
    IN  IF Len(digits) # 13 THEN Null
        ELSE
            LET yy == ParseDigits(SubSeq(digits, 1, 2))
                mm == ParseDigits(SubSeq(digits, 3, 4))
                dd == ParseDigits(SubSeq(digits, 5, 6))
                genderCode == digits[7]
                century == CenturyOf(genderCode)
            IN  IF century = 0 \/ mm < 1 \/ mm > 12 \/ dd < 1 \/ dd > 31 THEN Null
                ELSE
                    LET year == century + yy
                        birth == NewDate(year, mm - 1, dd)
                    IN  IF birth.year # year \/ birth.month # mm - 1 \/ birth.date # dd
                        THEN Null
                        ELSE
                            LET ageMonths == getAgeMonths(birth, refDate)
                            IN  IF ageMonths < 0 THEN Null
                                ELSE [birth |-> birth, ageMonths |-> ageMonths]

(* ---- inputs of Part I ------------------------------------------------- *)

\* The two-digit fields tried: every month field 00..MaxMonthField, every day
\* field 00..MaxDayField, the year fields of YearFields, every 7th digit.
MaxMonthField == 13
MaxDayField == 32
YearFields == {0, 24, 99}

TwoDigits(n) == <<DigitChars[(n \div 10) + 1], DigitChars[(n % 10) + 1]>>

\* Ways the identifier reaches the parser: bare, hyphenated (the form's
\* placeholder), masked as maskResidentId shows it, one digit short or long,
\* with blanks and letters typed in, and cut after the birth date.
Shapes == {"plain", "hyphen", "masked", "short", "long", "noisy", "front"}
Written(shape, yy, mm, dd, code) ==
    LET d6 == TwoDigits(yy) \o TwoDigits(mm) \o TwoDigits(dd)
    IN  CASE shape = "plain"  -> d6 \o <<code, "2", "3", "4", "5", "6", "7">>
          [] shape = "hyphen" -> d6 \o <<"-", code, "2", "3", "4", "5", "6", "7">>
          [] shape = "masked" -> d6 \o <<"-", code, "*", "*", "*", "*", "*", "*">>
          [] shape = "short"  -> d6 \o <<"-", code, "2", "3", "4", "5", "6">>
          [] shape = "long"   -> d6 \o <<code, "2", "3", "4", "5", "6", "7", "8">>
          [] shape = "noisy"  -> <<" ">> \o d6 \o <<" ", "a", code, "2", "3", "-", "4", "5", ".", "6", "7">>
          [] shape = "front"  -> d6

RefDates ==
    { [year |-> 2024, month |-> 5, date |-> 15],    \* 2024-06-15
      [year |-> 2000, month |-> 1, date |-> 29],    \* 2000-02-29
      [year |-> 1999, month |-> 11, date |-> 31] }  \* 1999-12-31

ResInit ==
    /\ \E shape \in Shapes, yy \in YearFields, mm \in 0..MaxMonthField,
          dd \in 0..MaxDayField, code \in Digit :
            value = Written(shape, yy, mm, dd, code)
    /\ referenceDate \in RefDates
    /\ ageInfo = Null
    /\ sexKey = NullKey
    /\ rpc = "input"

\* The render evaluates parseResidentId(form.residentId, visitDateValue) ...
ParseResidentId ==
    /\ rpc = "input"
    /\ ageInfo' = parseResidentId(value, referenceDate)
    /\ rpc' = "parsed"
    /\ UNCHANGED <<value, referenceDate, sexKey, notRes>>

\* ... and then getSexKey(form.residentId).
GetSexKey ==
    /\ rpc = "parsed"
    /\ sexKey' = getSexKey(value)
    /\ rpc' = "done"
    /\ UNCHANGED <<value, referenceDate, ageInfo, notRes>>

ResNext == ParseResidentId \/ GetSexKey

(* ---- Part I: the properties ------------------------------------------- *)

\* What the properties say about the input is read off the input itself:
\* its decimal digits in order, the fields they spell, the calendar.
RECURSIVE DigitsIn(_)
DigitsIn(s) ==
    IF s = <<>> THEN <<>>
    ELSE IF Head(s) \in {"0", "1", "2", "3", "4", "5", "6", "7", "8", "9"}
         THEN <<Head(s)>> \o DigitsIn(Tail(s))
         ELSE DigitsIn(Tail(s))
FieldAt(s, i) == 10 * DigitValue(DigitsIn(s)[i]) + DigitValue(DigitsIn(s)[i + 1])
SeventhDigit(s) == DigitsIn(s)[7]
CenturyBase(s) ==
    IF SeventhDigit(s) \in {"1", "2", "5", "6"} THEN 1900
    ELSE IF SeventhDigit(s) \in {"3", "4", "7", "8"} THEN 2000
    ELSE 0
LeapYear(y) == IF y % 100 = 0 THEN y % 400 = 0 ELSE y % 4 = 0
MonthLength(y, m) ==
    CASE m \in {1, 3, 5, 7, 8, 10, 12} -> 31
      [] m \in {4, 6, 9, 11} -> 30
      [] m = 2 -> IF LeapYear(y) THEN 29 ELSE 28
RealCalendarDate(y, m, d) == m \in 1..12 /\ d \in 1..MonthLength(y, m)
Parsed == rpc \in {"parsed", "done"}
Accepted == Parsed /\ ageInfo # Null

\* C1: an accepted identifier has 7th digit 1,2,5,6 and birth year 1900+YY, or
\* 7th digit 3,4,7,8 and birth year 2000+YY; a 7th digit 0 or 9 is never accepted.
C1_CenturyOfBirthYear ==
    Parsed =>
        /\ ageInfo # Null =>
            /\ Len(DigitsIn(value)) >= 7
            /\ CenturyBase(value) # 0
            /\ ageInfo.birth.year = CenturyBase(value) + FieldAt(value, 1)
        /\ (Len(DigitsIn(value)) >= 7 /\ SeventhDigit(value) \in {"0", "9"}) => ageInfo = Null
C1_Witness ==
    /\ Accepted
    /\ SeventhDigit(value) = "6" /\ ageInfo.birth.year = 1924

\* C2: the result is null unless exactly 13 digits remain after the non-digits
\* are removed, and it is the result for the digits alone, so two inputs with
\* the same digits get the same result.
C2_OnlyDigitsCount ==
    Parsed =>
        /\ Len(DigitsIn(value)) # 13 => ageInfo = Null
        /\ ageInfo = parseResidentId(DigitsIn(value), referenceDate)
C2_Witness ==
    /\ Accepted
    /\ Len(value) > 13 /\ " " \in {value[i] : i \in 1..Len(value)}

\* C3: thirteen digits that do not spell a real calendar date (year from the
\* century code) are never accepted.
C3_ImpossibleDateRejected ==
    (Parsed /\ Len(DigitsIn(value)) = 13 /\ CenturyBase(value) # 0) =>
        (~RealCalendarDate(CenturyBase(value) + FieldAt(value, 1),
                           FieldAt(value, 3), FieldAt(value, 5))
            => ageInfo = Null)
\* 29 February 1900, with a reference date after it, has come back as null
C3_Witness ==
    /\ Parsed /\ ageInfo = Null
    /\ Len(DigitsIn(value)) = 13 /\ SeventhDigit(value) = "1"
    /\ FieldAt(value, 1) = 0 /\ FieldAt(value, 3) = 2 /\ FieldAt(value, 5) = 29

\* C4: the age in months of an accepted identifier, and getAgeMonths of any
\* real birth date, is (refYear - birthYear) * 12 + (refMonth - birthMonth),
\* less 1 exactly when the reference day is before the birth day.
ClaimedAgeMonths(by, bm, bd, ref) ==
    (ref.year - by) * 12 + ((ref.month + 1) - bm) - (IF ref.date < bd THEN 1 ELSE 0)
C4_AgeMonthsFormula ==
    (Parsed /\ Len(DigitsIn(value)) = 13 /\ CenturyBase(value) # 0) =>
        LET by == CenturyBase(value) + FieldAt(value, 1)
            bm == FieldAt(value, 3)
            bd == FieldAt(value, 5)
        IN  RealCalendarDate(by, bm, bd) =>
                /\ getAgeMonths([year |-> by, month |-> bm - 1, date |-> bd], referenceDate)
                       = ClaimedAgeMonths(by, bm, bd, referenceDate)
                /\ ageInfo # Null => ageInfo.ageMonths = ClaimedAgeMonths(by, bm, bd, referenceDate)
\* accepted with the reference day before the birth day: the month is not counted
C4_Witness ==
    /\ Accepted
    /\ referenceDate.date < ageInfo.birth.date
    /\ ageInfo.ageMonths = ClaimedAgeMonths(ageInfo.birth.year, ageInfo.birth.month + 1,
                                            ageInfo.birth.date, referenceDate)
    /\ ageInfo.ageMonths > 0

\* C5: a birth date after the reference date is never accepted, and an accepted
\* identifier has a non-negative age.
BirthAfterReference(by, bm, bd, ref) ==
    \/ by > ref.year
    \/ by = ref.year /\ bm > ref.month + 1
    \/ by = ref.year /\ bm = ref.month + 1 /\ bd > ref.date
C5_NoNegativeAge ==
    Parsed =>
        /\ ageInfo # Null => ageInfo.ageMonths >= 0
        /\ (Len(DigitsIn(value)) = 13 /\ CenturyBase(value) # 0
              /\ BirthAfterReference(CenturyBase(value) + FieldAt(value, 1),
                                     FieldAt(value, 3), FieldAt(value, 5), referenceDate))
            => ageInfo = Null
\* a real date later in the reference month itself has come back as null
C5_Witness ==
    /\ Parsed /\ ageInfo = Null
    /\ Len(DigitsIn(value)) = 13 /\ SeventhDigit(value) = "3"
    /\ referenceDate = [year |-> 2024, month |-> 5, date |-> 15]
    /\ FieldAt(value, 1) = 24 /\ FieldAt(value, 3) = 6 /\ FieldAt(value, 5) = 16

\* C6 as stated: "990101-1******" with reference date 2024-06-15 gives 305 months.
MaskedExample == <<"9", "9", "0", "1", "0", "1", "-", "1", "*", "*", "*", "*", "*", "*">>
ExampleReference == [year |-> 2024, month |-> 5, date |-> 15]
C6_MaskedGives305 ==
    (Parsed /\ value = MaskedExample /\ referenceDate = ExampleReference) =>
        (ageInfo # Null /\ ageInfo.ageMonths = 305)
\* C6 amended: the masked string is rejected (7 digits remain); an identifier
\* that starts 990101-1 and has all thirteen digits gives 305 months.
C6_FullIdGives305 ==
    (Parsed /\ referenceDate = ExampleReference) =>
        /\ value = MaskedExample => ageInfo = Null
        /\ (Len(DigitsIn(value)) = 13
              /\ SubSeq(DigitsIn(value), 1, 7) = <<"9", "9", "0", "1", "0", "1", "1">>)
            => (ageInfo # Null /\ ageInfo.ageMonths = 305)
C6_Witness ==
    /\ Accepted /\ referenceDate = ExampleReference
    /\ value = <<"9", "9", "0", "1", "0", "1", "-", "1", "2", "3", "4", "5", "6", "7">>
    /\ ageInfo.ageMonths = 305

\* C7: the sex key is "1" for a 7th digit 1,3,5,7, "2" for 2,4,6,8, and null for
\* 0, 9 or fewer than 7 digits, whatever the parser made of the identifier.
C7_SexKeyFromSeventhDigit ==
    rpc = "done" =>
        sexKey = IF Len(DigitsIn(value)) < 7 THEN NullKey
                 ELSE IF SeventhDigit(value) \in {"1", "3", "5", "7"} THEN "1"
                 ELSE IF SeventhDigit(value) \in {"2", "4", "6", "8"} THEN "2"
                 ELSE NullKey
\* a sex key for an identifier the parser rejected (month field 13, masked tail)
C7_Witness ==
    /\ rpc = "done" /\ sexKey = "2" /\ ageInfo = Null
    /\ FieldAt(value, 3) = 13 /\ "*" \in {value[i] : i \in 1..Len(value)}

(***************************************************************************)
(* Part II.  Reference-table parser (parseCsvLine, parseGrowthCsv)         *)
(*                                                                         *)
(* Characters that are not printable ASCII are named: LF, CR, TAB, BOM     *)
(* (U+FEFF), DQ (the double quote) and the Hangul syllables of the two     *)
(* headers.  undefined is the one-character string Undefined, a TypeError  *)
(* raised by a member access on undefined is the string TypeError; neither *)
(* character occurs in a text.  A number is NaN or a finite decimal        *)
(* [mant, scale] = mant / 10^scale.                                        *)
(***************************************************************************)

LF == "LF"
CR == "CR"
TAB == "TAB"
BOM == "BOM"
DQ == "DQ"
Undefined == <<"undefined">>
TypeError == <<"TypeError">>
NaN == [nan |-> TRUE]
Threw == [threw |-> TRUE]

\* the sex header and the age-in-months marker, one named character per syllable
SexHeader == <<"seong", "byeol">>
AgeMarker == <<"man", "na", "i", "(", "gae", "wol">>

\* String.prototype.trim: white space and line terminators, U+FEFF included
IsWhiteSpace(c) == c \in {" ", TAB, CR, LF, BOM}
RECURSIVE TrimStart(_)
TrimStart(s) == IF s # <<>> /\ IsWhiteSpace(Head(s)) THEN TrimStart(Tail(s)) ELSE s
RECURSIVE TrimEnd(_)
TrimEnd(s) ==
    IF s # <<>> /\ IsWhiteSpace(s[Len(s)]) THEN TrimEnd(SubSeq(s, 1, Len(s) - 1)) ELSE s
Trim(s) == TrimEnd(TrimStart(s))

\* x.trim(): a TypeError when x is undefined
MemberTrim(x) == IF x = Undefined THEN TypeError ELSE Trim(x)
\* the optional chain left out: a plain member access
OptionalChainTrimDropped(x) == IF x = Undefined THEN TypeError ELSE Trim(x)
\* x?.trim(): undefined when x is undefined
OptionalChainTrim(x) == IF x = Undefined THEN Undefined ELSE Trim(x)

\* arr[i] with the 0-based index i: undefined outside the array
At(arr, i) == IF i >= 0 /\ i < Len(arr) THEN arr[i + 1] ELSE Undefined

\* content.split(/\r?\n/)
RECURSIVE SplitLinesFrom(_, _)
SplitLinesFrom(s, current) ==
    IF s = <<>> THEN <<current>>
    ELSE IF Head(s) = LF THEN <<current>> \o SplitLinesFrom(Tail(s), <<>>)
    ELSE IF Head(s) = CR /\ Len(s) >= 2 /\ s[2] = LF
         THEN <<current>> \o SplitLinesFrom(Tail(Tail(s)), <<>>)
    ELSE SplitLinesFrom(Tail(s), Append(current, Head(s)))
SplitLines(s) == SplitLinesFrom(s, <<>>)

\* the loop of parseCsvLine from index i (1-based here) on
RECURSIVE parseCsvLineFrom(_, _, _, _)
parseCsvLineFrom(line, i, current, inQuotes) ==
    IF i > Len(line) THEN <<Trim(current)>>
    ELSE
        LET char == line[i]
        IN  IF char = DQ
            THEN IF inQuotes /\ i + 1 <= Len(line) /\ line[i + 1] = DQ
                 THEN parseCsvLineFrom(line, i + 2, Append(current, DQ), inQuotes)
                 ELSE parseCsvLineFrom(line, i + 1, current, ~inQuotes)
            ELSE IF char = "," /\ ~inQuotes
            THEN <<Trim(current)>> \o parseCsvLineFrom(line, i + 1, <<>>, inQuotes)
            ELSE parseCsvLineFrom(line, i + 1, Append(current, char), inQuotes)
parseCsvLine(line) == parseCsvLineFrom(line, 1, <<>>, FALSE)

\* the longest prefix of decimal digits
RECURSIVE DigitPrefix(_)
DigitPrefix(s) ==
    IF s # <<>> /\ Head(s) \in Digit THEN <<Head(s)>> \o DigitPrefix(Tail(s)) ELSE <<>>

\* Number.parseInt(x, 10): leading white space, a sign, then digits; NaN when
\* no digit follows (undefined reads as the text "undefined").
ParseInt(x) ==
    IF x = Undefined THEN NaN
    ELSE
        LET t == TrimStart(x)
            negative == t # <<>> /\ Head(t) = "-"
            body == IF t # <<>> /\ Head(t) \in {"-", "+"} THEN Tail(t) ELSE t
            digits == DigitPrefix(body)
        IN  IF digits = <<>> THEN NaN
            ELSE [int |-> IF negative THEN 0 - ParseDigits(digits) ELSE ParseDigits(digits)]

RECURSIVE Pow10(_)
Pow10(n) == IF n = 0 THEN 1 ELSE 10 * Pow10(n - 1)
RECURSIVE Decimal(_, _)
Decimal(mant, scale) ==
    IF scale > 0 /\ mant % 10 = 0 THEN Decimal(mant \div 10, scale - 1)
    ELSE [mant |-> mant, scale |-> scale]

\* Number.parseFloat(x) for texts without exponent part and without the word
\* Infinity: leading white space, a sign, digits, a point and digits.
ParseFloat(x) ==
    IF x = Undefined THEN NaN
    ELSE
        LET t == TrimStart(x)
            negative == t # <<>> /\ Head(t) = "-"
            body == IF t # <<>> /\ Head(t) \in {"-", "+"} THEN Tail(t) ELSE t
            whole == DigitPrefix(body)
            rest == SubSeq(body, Len(whole) + 1, Len(body))
            fraction == IF rest # <<>> /\ Head(rest) = "." THEN DigitPrefix(Tail(rest)) ELSE <<>>
            magnitude == ParseDigits(whole) * Pow10(Len(fraction)) + ParseDigits(fraction)
        IN  IF whole = <<>> /\ fraction = <<>> THEN NaN
            ELSE Decimal(IF negative THEN 0 - magnitude ELSE magnitude, Len(fraction))

\* String(n) of an integer
RECURSIVE NatToString(_)
NatToString(n) ==
    IF n < 10 THEN <<DigitChars[n + 1]>>
    ELSE NatToString(n \div 10) \o <<DigitChars[(n % 10) + 1]>>
IntToString(n) == IF n < 0 THEN <<"-">> \o NatToString(0 - n) ELSE NatToString(n)

\* percentilePattern = /^\d+(st|nd|rd|th)$/i
ToLowerCase(c) ==
    CASE c = "S" -> "s" [] c = "T" -> "t" [] c = "N" -> "n"
      [] c = "D" -> "d" [] c = "R" -> "r" [] c = "H" -> "h"
      [] OTHER -> c
percentilePatternTest(name) ==
    /\ Len(name) >= 3
    /\ \A i \in 1..(Len(name) - 2) : name[i] \in Digit
    /\ <<ToLowerCase(name[Len(name) - 1]), ToLowerCase(name[Len(name)])>>
          \in {<<"s", "t">>, <<"n", "d">>, <<"r", "d">>, <<"t", "h">>}

\* name.includes(AgeMarker)
Includes(name, part) ==
    \E i \in 1..(Len(name) - Len(part) + 1) : SubSeq(name, i, i + Len(part) - 1) = part

\* columns.findIndex(test), hits being the 1-based positions that pass the
\* test: the first of them as a 0-based index, or -1
FindIndex(hits) ==
    IF hits = {} THEN -1
    ELSE (CHOOSE i \in hits : \A j \in hits : i <= j) - 1

EmptyMap == [k \in {} |-> <<>>]
EmptyTable == [percentiles |-> <<>>, bySex |-> EmptyMap]

\* value.replace(/^\uFEFF/, "")
StripBom(v) == IF v # <<>> /\ Head(v) = BOM THEN Tail(v) ELSE v

\* the effective column names: the bottom header cell, or the top one under a
\* missing or empty bottom cell
Columns(headerTop, headerBottom) ==
    [index \in 1..Len(headerTop) |->
        LET bottom == OptionalChainTrim(At(headerBottom, index - 1))
        IN  IF bottom \in {Undefined, <<>>} THEN MemberTrim(headerTop[index]) ELSE bottom]

\* columns.map((name, index) => ({ name: name.trim(), index })).filter(...)
PercentileColumns(columns) ==
    SelectSeq([i \in 1..Len(columns) |-> [name |-> Trim(columns[i]), index |-> i - 1]],
              LAMBDA column : percentilePatternTest(column.name))

\* Object.fromEntries(percentileColumns.map((column) => [column.name, []]))
NewEntry(percentileColumns) ==
    [ages |-> <<>>,
     percentiles |-> [name \in {percentileColumns[i].name : i \in 1..Len(percentileColumns)}
                        |-> <<>>]]

\* percentileColumns.forEach: one push per column, onto the array of its name
RECURSIVE PushPercentiles(_, _, _)
PushPercentiles(percentiles, percentileColumns, cells) ==
    IF percentileColumns = <<>> THEN percentiles
    ELSE
        LET column == Head(percentileColumns)
            rawValue == At(cells, column.index)
            parsed == ParseFloat(rawValue)
        IN  PushPercentiles(
                [percentiles EXCEPT ![column.name] = Append(@, parsed)],
                Tail(percentileColumns), cells)

\* the body of lines.slice(2).forEach for one line
AddRow(bySex, line, sexIndex, monthIndex, percentileColumns) ==
    LET cells == parseCsvLine(line)
        sexValue == ParseInt(At(cells, sexIndex))
        monthValue == ParseInt(At(cells, monthIndex))
    IN  IF sexValue = NaN \/ monthValue = NaN THEN bySex
        ELSE
            LET key == IntToString(sexValue.int)
                entry == IF key \in DOMAIN bySex THEN bySex[key]
                         ELSE NewEntry(percentileColumns)
                pushed == [ages |-> Append(entry.ages, monthValue.int),
                           percentiles |-> PushPercentiles(entry.percentiles,
                                                           percentileColumns, cells)]
            IN  [k \in DOMAIN bySex \cup {key} |-> IF k = key THEN pushed ELSE bySex[k]]

RECURSIVE AddRows(_, _, _, _, _)
AddRows(bySex, rows, sexIndex, monthIndex, percentileColumns) ==
    IF rows = <<>> THEN bySex
    ELSE AddRows(AddRow(bySex, Head(rows), sexIndex, monthIndex, percentileColumns),
                 Tail(rows), sexIndex, monthIndex, percentileColumns)

parseGrowthCsv(text) ==
    LET lines == SelectSeq(SplitLines(text), LAMBDA line : Len(Trim(line)) > 0)
    IN  IF Len(lines) < 3 THEN EmptyTable
        ELSE
            LET top == parseCsvLine(lines[1])
                headerTop == [index \in 1..Len(top) |->
                                 IF index = 1 THEN StripBom(top[index]) ELSE top[index]]
                headerBottom == parseCsvLine(lines[2])
                columns == Columns(headerTop, headerBottom)
                sexIndex == FindIndex({i \in 1..Len(columns) : columns[i] = SexHeader})
                monthIndex == FindIndex({i \in 1..Len(columns) : Includes(columns[i], AgeMarker)})
            IN  IF \E i \in 1..Len(columns) : columns[i] = TypeError THEN Threw
                ELSE IF sexIndex < 0 \/ monthIndex < 0 THEN EmptyTable
                ELSE
                    LET percentileColumns == PercentileColumns(columns)
                    IN  [percentiles |-> [i \in 1..Len(percentileColumns)
                                            |-> percentileColumns[i].name],
                         bySex |-> AddRows(EmptyMap, SubSeq(lines, 3, Len(lines)),
                                           sexIndex, monthIndex, percentileColumns)]

(* ---- inputs of Part II ------------------------------------------------ *)

\* At most MaxRows data lines follow the two header lines.
MaxRows == 2

RECURSIVE Join(_, _)
Join(parts, sep) ==
    IF parts = <<>> THEN <<>>
    ELSE IF Len(parts) = 1 THEN parts[1]
    ELSE parts[1] \o sep \o Join(Tail(parts), sep)

AgeHeader == AgeMarker \o <<")">>
TopHeaders ==
    { \* sex, age, a group label over blank cells; the file starts with a BOM
      << <<BOM>> \o SexHeader, AgeHeader, <<"p">>, <<>>, <<>> >>,
      \* no age column
      << SexHeader, <<"x">>, <<"3", "r", "d">> >>,
      \* no sex column; the age header is quoted and holds a comma
      << <<"a">>, <<DQ>> \o AgeMarker \o <<",", ")", DQ>>, <<"5", "T", "H">> >>,
      \* the same percentile label twice
      << SexHeader, <<" ">> \o AgeHeader, <<"3", "r", "d">>, <<"3", "r", "d">> >> }
BottomHeaders ==
    { << <<>>, <<>>, <<"3", "r", "d">>, <<"5", "0", "t", "h">>, <<"9", "7", "T", "H">> >>,
      << <<>>, <<>> >>,
      << <<"x">>, <<"y">> >>,
      << <<>>, <<>>, <<"3", "r", "d">>, <<"3", "r", "d">> >> }
DataLines ==
    { <<"1", ",", "0", ",", "4", ".", "5", ",", "5", ",", "6">>,
      <<"2", ",", "1", "2", ",", "7">>,
      <<"1", ",", "6">>,
      <<"x", ",", "1", ",", "2">>,
      <<"1", ",", ",", "3">>,
      <<" ", "1", " ", ",", "2", TAB, ",", DQ, "a", DQ, DQ, "b", DQ, ",", ".", "5">>,
      <<TAB>> }
LineBreaks == { <<LF>>, <<CR, LF>> }

RECURSIVE SeqsUpTo(_, _)
SeqsUpTo(S, n) ==
    IF n = 0 THEN {<<>>}
    ELSE SeqsUpTo(S, n - 1) \cup
         {Append(q, x) : q \in {r \in SeqsUpTo(S, n - 1) : Len(r) = n - 1}, x \in S}

Contents ==
    { Join(<<Join(top, <<",">>), Join(bottom, <<",">>)>> \o rows, br) :
        top \in TopHeaders, bottom \in BottomHeaders,
        rows \in SeqsUpTo(DataLines, MaxRows), br \in LineBreaks }

CsvInit ==
    /\ content \in Contents
    /\ table = Null
    /\ cpc = "text"

ParseGrowthCsv ==
    /\ cpc = "text"
    /\ table' = parseGrowthCsv(content)
    /\ cpc' = "parsed"
    /\ UNCHANGED <<content, notCsv>>

CsvNext == ParseGrowthCsv

(* ---- Part II: the properties ------------------------------------------ *)

NonBlankLines(text) == SelectSeq(SplitLines(text), LAMBDA line : Len(Trim(line)) > 0)
\* The effective header at 1-based position i: the second header line's cell
\* if it is not empty, else the first header line's cell.
EffectiveHeader(text, i) ==
    LET top == parseCsvLine(NonBlankLines(text)[1])
        bottom == parseCsvLine(NonBlankLines(text)[2])
    IN  IF i <= Len(bottom) /\ Trim(bottom[i]) # <<>> THEN Trim(bottom[i])
        ELSE IF i <= Len(top) THEN Trim(top[i])
        ELSE <<>>
EffectiveHeaders(text) ==
    LET top == parseCsvLine(NonBlankLines(text)[1])
        bottom == parseCsvLine(NonBlankLines(text)[2])
        width == IF Len(top) > Len(bottom) THEN Len(top) ELSE Len(bottom)
    IN  {EffectiveHeader(text, i) : i \in 1..width}
MissingColumn(text) ==
    \/ Len(NonBlankLines(text)) < 3
    \/ SexHeader \notin EffectiveHeaders(text)
    \/ \A h \in EffectiveHeaders(text) : ~Includes(h, AgeMarker)

\* C8: parseGrowthCsv never throws, and a text with fewer than 3 non-blank
\* lines, without a sex header or without an age-in-months header gives the
\* empty table.
C8_NoThrowEmptyOnMissingColumn ==
    cpc = "parsed" =>
        /\ table # Threw
        /\ MissingColumn(content) => table = EmptyTable
\* the empty table for a text with data lines whose second header line is
\* shorter than the first and which has a sex header but no age header
C8_Witness ==
    /\ cpc = "parsed" /\ table = EmptyTable
    /\ Len(NonBlankLines(content)) >= 3
    /\ SexHeader \in EffectiveHeaders(content)
    /\ \A h \in EffectiveHeaders(content) : ~Includes(h, AgeMarker)
    /\ Len(parseCsvLine(NonBlankLines(content)[2])) < Len(parseCsvLine(NonBlankLines(content)[1]))

\* C9 as stated: in every returned table every percentile array is as long as
\* the ages array of its sex.
C9_ParallelArrays ==
    (cpc = "parsed" /\ table # Threw) =>
        \A k \in DOMAIN table.bySex :
            \A label \in DOMAIN table.bySex[k].percentiles :
                Len(table.bySex[k].percentiles[label]) = Len(table.bySex[k].ages)
\* What does hold: an array is as long as the ages array times the number of
\* columns that carry its label, so the arrays are parallel exactly when no
\* label occurs twice.
LabelCount(label) ==
    Cardinality({i \in 1..Len(table.percentiles) : table.percentiles[i] = label})
C9_LengthTimesLabelCount ==
    (cpc = "parsed" /\ table # Threw) =>
        \A k \in DOMAIN table.bySex :
            \A label \in DOMAIN table.bySex[k].percentiles :
                Len(table.bySex[k].percentiles[label])
                    = Len(table.bySex[k].ages) * LabelCount(label)

(***************************************************************************)
(* Part III.  The endpoint GET /api/growth-table?metric=...                *)
(*                                                                         *)
(* A request runs GET up to its await of fs.readFile in one step and, when *)
(* the read settles, the rest in a second step; steps of different         *)
(* requests interleave.                                                    *)
(***************************************************************************)

\* At most MaxRequests requests arrive.
MaxRequests == 3

Metrics == {"height", "weight"}
\* searchParams.get("metric"): a valid selector, another word, or null
Selectors == Metrics \cup {"bmi", NullKey}

NewRequest == [pc |-> "new", metric |-> NullKey, status |-> 0, body |-> Null, returnedAt |-> "none"]

\* the text of a source file: a table with three percentile columns and two
\* data lines, or a text without the age column
FileTexts ==
    { Join(<< Join(<< <<BOM>> \o SexHeader, AgeHeader, <<"3", "r", "d">>, <<"5", "0", "t", "h">> >>, <<",">>),
              <<",">>,
              <<"1", ",", "0", ",", "4", ".", "5", ",", "5">>,
              <<"2", ",", "0", ",", "4", ",", "x">> >>, <<LF>>),
      Join(<< Join(<< SexHeader, <<"x">>, <<"3", "r", "d">> >>, <<",">>),
              <<",">>,
              <<"1", ",", "0", ",", "4">> >>, <<LF>>) }

GetInit ==
    /\ files \in [Metrics -> FileTexts]
    /\ cache = [m \in Metrics |-> Null]
    /\ req = [r \in 1..MaxRequests |-> NewRequest]
    /\ reads = [m \in Metrics |-> 0]
    /\ parses = [m \in Metrics |-> 0]

\* a plausible slip: the cache is not consulted, every valid request reads
GetStartIgnoresCache(r, selector) ==
    /\ req[r].pc = "new"
    /\ r > 1 => req[r - 1].pc # "new"
    /\ IF selector \notin Metrics
       THEN /\ req' = [req EXCEPT ![r] = [pc |-> "done", metric |-> selector, status |-> 400,
                                          body |-> [error |-> "Invalid metric"],
                                          returnedAt |-> "invalid"]]
            /\ UNCHANGED <<reads>>
       ELSE /\ req' = [req EXCEPT ![r] = [pc |-> "reading", metric |-> selector, status |-> 0,
                                          body |-> Null, returnedAt |-> "none"]]
            /\ reads' = [reads EXCEPT ![selector] = @ + 1]
    /\ UNCHANGED <<files, cache, parses, notGet>>

\* a plausible slip: only a missing selector is refused, any word is looked up
\* (and, not being a key of FILES, answered from the height file)
GetStartOnlyMissingRefused(r, selector) ==
    /\ req[r].pc = "new"
    /\ r > 1 => req[r - 1].pc # "new"
    /\ IF selector = NullKey
       THEN /\ req' = [req EXCEPT ![r] = [pc |-> "done", metric |-> selector, status |-> 400,
                                          body |-> [error |-> "Invalid metric"],
                                          returnedAt |-> "invalid"]]
            /\ UNCHANGED <<reads>>
       ELSE LET key == IF selector \in Metrics THEN selector ELSE "height"
            IN  IF cache[key] # Null
                THEN /\ req' = [req EXCEPT ![r] = [pc |-> "done", metric |-> selector,
                                                   status |-> 200, body |-> cache[key],
                                                   returnedAt |-> "cached"]]
                     /\ UNCHANGED <<reads>>
                ELSE /\ req' = [req EXCEPT ![r] = [pc |-> "reading", metric |-> key,
                                                   status |-> 0, body |-> Null,
                                                   returnedAt |-> "none"]]
                     /\ reads' = [reads EXCEPT ![key] = @ + 1]
    /\ UNCHANGED <<files, cache, parses, notGet>>

\* GET from its start to the first return or to the await of fs.readFile
GetStart(r, selector) ==
    /\ req[r].pc = "new"
    /\ r > 1 => req[r - 1].pc # "new"
    /\ IF selector \notin Metrics
       THEN /\ req' = [req EXCEPT ![r] = [pc |-> "done", metric |-> selector, status |-> 400,
                                          body |-> [error |-> "Invalid metric"],
                                          returnedAt |-> "invalid"]]
            /\ UNCHANGED <<reads>>
       ELSE IF cache[selector] # Null
       THEN /\ req' = [req EXCEPT ![r] = [pc |-> "done", metric |-> selector, status |-> 200,
                                          body |-> cache[selector], returnedAt |-> "cached"]]
            /\ UNCHANGED <<reads>>
       ELSE /\ req' = [req EXCEPT ![r] = [pc |-> "reading", metric |-> selector, status |-> 0,
                                          body |-> Null, returnedAt |-> "none"]]
            /\ reads' = [reads EXCEPT ![selector] = @ + 1]
    /\ UNCHANGED <<files, cache, parses, notGet>>

\* the response is returned but never stored
GetReadDoneNoCacheSet(r) ==
    /\ req[r].pc = "reading"
    /\ LET metric == req[r].metric
           parsed == parseGrowthCsv(files[metric])
           response == [metric |-> metric, percentiles |-> parsed.percentiles,
                        bySex |-> parsed.bySex]
       IN  /\ req' = [req EXCEPT ![r] = [pc |-> "done", metric |-> metric, status |-> 200,
                                          body |-> response, returnedAt |-> "parsed"]]
           /\ parses' = [parses EXCEPT ![metric] = @ + 1]
    /\ UNCHANGED <<files, cache, reads, notGet>>
\* fs.readFile resolves: parse, build the response, cache.set, return
GetReadDone(r) ==
    /\ req[r].pc = "reading"
    /\ LET metric == req[r].metric
           parsed == parseGrowthCsv(files[metric])
           response == [metric |-> metric, percentiles |-> parsed.percentiles,
                        bySex |-> parsed.bySex]
       IN  /\ cache' = [cache EXCEPT ![metric] = response]
           /\ req' = [req EXCEPT ![r] = [pc |-> "done", metric |-> metric, status |-> 200,
                                          body |-> response, returnedAt |-> "parsed"]]
           /\ parses' = [parses EXCEPT ![metric] = @ + 1]
    /\ UNCHANGED <<files, reads, notGet>>

\* fs.readFile rejects: GET rejects with the error, nothing is stored
GetReadFail(r) ==
    /\ req[r].pc = "reading"
    /\ req' = [req EXCEPT ![r] = [pc |-> "failed", metric |-> req[r].metric, status |-> 500,
                                   body |-> Null, returnedAt |-> "none"]]
    /\ UNCHANGED <<files, cache, reads, parses, notGet>>

GetNext ==
    \/ \E r \in 1..MaxRequests, selector \in Selectors : GetStart(r, selector)
    \/ \E r \in 1..MaxRequests : GetReadDone(r)
    \/ \E r \in 1..MaxRequests : GetReadFail(r)

(* ---- Part III: the properties ----------------------------------------- *)

Succeeded(m) ==
    \E r \in 1..MaxRequests : req[r].pc = "done" /\ req[r].metric = m /\ req[r].status = 200

\* C10: once a GET for metric m has completed successfully, the cache holds an
\* entry for m in this and in every later state, and a GET for m that arrives
\* from then on returns that entry at once: no file is read, nothing is parsed.
C10_CachedAfterSuccess ==
    [][\A m \in Metrics :
          Succeeded(m) =>
              /\ cache[m] # Null /\ cache'[m] # Null
              /\ \A r \in 1..MaxRequests :
                    (req[r].pc = "new" /\ req'[r].pc # "new" /\ req'[r].metric = m) =>
                        /\ req'[r].pc = "done" /\ req'[r].status = 200
                        /\ req'[r].body = cache[m]
                        /\ reads' = reads /\ parses' = parses /\ cache' = cache]_vars
\* a request served from the cache after an earlier one had read the file
C10_Witness ==
    \E r1, r2 \in 1..MaxRequests :
        /\ r1 < r2
        /\ req[r1].pc = "done" /\ req[r1].returnedAt = "parsed"
        /\ req[r2].pc = "done" /\ req[r2].returnedAt = "cached"
        /\ req[r2].metric = req[r1].metric
        /\ req[r2].body = cache[req[r1].metric]
        /\ reads[req[r1].metric] = 1 /\ parses[req[r1].metric] = 1

\* C11 (as claimed): over every interleaving of the GET requests of one
\* process, the cache entry of a metric is populated (file read, parse,
\* cache.set) at most once.
C11_PopulatedAtMostOnce ==
    \A m \in Metrics : reads[m] <= 1 /\ parses[m] <= 1

\* C11 (amended): a file read for metric m is started only by a request that
\* finds no entry for m, each population (parse, cache.set) is the completion
\* of one such read, and no read starts once the entry exists; the entry is
\* populated at most once per request that arrived before the first
\* population, which can be more than once.
C11_PopulatedOncePerEarlyArrival ==
    [][\A m \in Metrics :
          /\ reads'[m] # reads[m] =>
                 /\ cache[m] = Null
                 /\ reads'[m] = reads[m] + 1
                 /\ \E r \in 1..MaxRequests :
                        req[r].pc = "new" /\ req'[r].pc = "reading" /\ req'[r].metric = m
          /\ parses'[m] # parses[m] =>
                 /\ parses'[m] = parses[m] + 1
                 /\ cache'[m] # Null
                 /\ \E r \in 1..MaxRequests :
                        req[r].pc = "reading" /\ req[r].metric = m /\ req'[r].pc = "done"
          /\ parses'[m] <= reads'[m]]_vars
\* two requests that both found the cache empty have both populated the entry
C11_Witness ==
    \E m \in Metrics, r1, r2 \in 1..MaxRequests :
        /\ r1 # r2
        /\ req[r1].metric = m /\ req[r1].returnedAt = "parsed"
        /\ req[r2].metric = m /\ req[r2].returnedAt = "parsed"
        /\ reads[m] = 2 /\ parses[m] = 2 /\ cache[m] # Null

\* C12: a GET whose selector is neither "height" nor "weight" (a missing one
\* included) is answered with status 400 at once: no file is read, nothing is
\* parsed, the cache is left as it was; and no request with such a selector
\* is ever in another position.
C12_InvalidSelector400 ==
    [][\A r \in 1..MaxRequests :
          /\ (req[r].pc = "new" /\ req'[r].pc # "new" /\ req'[r].metric \notin {"height", "weight"}) =>
                 /\ req'[r].pc = "done" /\ req'[r].status = 400
                 /\ reads' = reads /\ parses' = parses /\ cache' = cache /\ files' = files
          /\ (req'[r].pc # "new" /\ req'[r].status # 400) =>
                 req'[r].metric \in {"height", "weight"}]_vars
\* a request with a word that names no metric and one without selector, both
\* refused, while the cache holds an entry
C12_Witness ==
    \E r1, r2 \in 1..MaxRequests :
        /\ req[r1].pc = "done" /\ req[r1].metric = "bmi" /\ req[r1].status = 400
        /\ req[r2].pc = "done" /\ req[r2].metric = NullKey /\ req[r2].status = 400
        /\ \E m \in Metrics : cache[m] # Null

(***************************************************************************)
(* Part IV.  The chart: MetricChart and the event markers of the page      *)
(*                                                                         *)
(* A finite number is the decimal [mant, scale] of Part II, and arithmetic *)
(* on decimals is exact.  Infinity and -Infinity arise as Math.min() and   *)
(* Math.max() of no argument.  A path is kept as the sequence of the data  *)
(* points it visits: its text has one M or L command per point, in order.  *)
(***************************************************************************)

PosInfinity == [inf |-> 1]
NegInfinity == [inf |-> -1]
\* Number.isFinite
NumberIsFinite(v) == "mant" \in DOMAIN v
Number(n) == Decimal(n, 0)

\* the mantissa of a finite number written with s decimals
AtScale(v, s) == v.mant * Pow10(s - v.scale)
CommonScale(a, b) == IF a.scale > b.scale THEN a.scale ELSE b.scale

\* a <= b on numbers; every comparison with NaN is false
NumLeq(a, b) ==
    IF a = NaN \/ b = NaN THEN FALSE
    ELSE IF a = NegInfinity \/ b = PosInfinity THEN TRUE
    ELSE IF a = PosInfinity \/ b = NegInfinity THEN FALSE
    ELSE AtScale(a, CommonScale(a, b)) <= AtScale(b, CommonScale(a, b))
\* a + b
NumAdd(a, b) ==
    IF a = NaN \/ b = NaN THEN NaN
    ELSE IF ~NumberIsFinite(a) /\ ~NumberIsFinite(b) THEN (IF a = b THEN a ELSE NaN)
    ELSE IF ~NumberIsFinite(a) THEN a
    ELSE IF ~NumberIsFinite(b) THEN b
    ELSE Decimal(AtScale(a, CommonScale(a, b)) + AtScale(b, CommonScale(a, b)), CommonScale(a, b))
NumNeg(a) ==
    IF a = NaN THEN NaN
    ELSE IF a = PosInfinity THEN NegInfinity
    ELSE IF a = NegInfinity THEN PosInfinity
    ELSE Decimal(0 - a.mant, a.scale)
\* a - b
NumSub(a, b) == NumAdd(a, NumNeg(b))
\* a * b for a finite b > 0
NumMul(a, b) ==
    IF NumberIsFinite(a) THEN Decimal(a.mant * b.mant, a.scale + b.scale) ELSE a

\* Math.min(...list) and Math.max(...list) of a list of finite numbers
RECURSIVE MathMin(_)
MathMin(list) ==
    IF list = <<>> THEN PosInfinity
    ELSE LET rest == MathMin(Tail(list))
         IN  IF NumLeq(Head(list), rest) THEN Head(list) ELSE rest
RECURSIVE MathMax(_)
MathMax(list) ==
    IF list = <<>> THEN NegInfinity
    ELSE LET rest == MathMax(Tail(list))
         IN  IF NumLeq(rest, Head(list)) THEN Head(list) ELSE rest

\* array.flatMap over an array of arrays
RECURSIVE Flat(_)
Flat(arrays) == IF arrays = <<>> THEN <<>> ELSE Head(arrays) \o Flat(Tail(arrays))

\* -- the page: injectionEvents ------------------------------------------
GrowthLabel == <<"seong", "jang", "ju", "sa">>
SuppressionLabel == <<"eok", "je", "ju", "sa">>

\* the events of one visit, before any offset is set
VisitEvents(visit) ==
    (IF visit.growthInjection
     THEN << [x |-> visit.ageMonths, label |-> GrowthLabel, type |-> "growth"] >>
     ELSE <<>>)
    \o
    (IF visit.suppressionInjection
     THEN << [x |-> visit.ageMonths, label |-> SuppressionLabel, type |-> "suppression"] >>
     ELSE <<>>)
WithOffset(event, offset) ==
    [x |-> event.x, label |-> event.label, type |-> event.type, offset |-> offset]
injectionEvents(visitList) ==
    Flat([i \in 1..Len(visitList) |->
            LET events == VisitEvents(visitList[i])
            IN  IF Len(events) = 2
                THEN << WithOffset(events[1], -8), WithOffset(events[2], 8) >>
                ELSE events])

\* -- MetricChart --------------------------------------------------------
points(p) ==
    SelectSeq([index \in 1..Len(p.values) |->
                  [x |-> IF p.xValues # Null THEN p.xValues.array[index] ELSE Number(index - 1),
                   y |-> p.values[index]]],
              LAMBDA point : NumberIsFinite(point.x) /\ NumberIsFinite(point.y))
referencePoints(p) == Flat([c \in 1..Len(p.referenceCurves) |-> p.referenceCurves[c].points])
hasHighlight(p) ==
    /\ p.highlightPoint # Null
    /\ NumberIsFinite(p.highlightPoint.x)
    /\ NumberIsFinite(p.highlightPoint.y)
\* a plausible slip: the highlight point alone does not make a chart
hasRenderableDataNoHighlight(p) ==
    Len(points(p)) > 0 \/ Len(referencePoints(p)) > 0
hasRenderableData(p) ==
    Len(points(p)) > 0 \/ Len(referencePoints(p)) > 0 \/ hasHighlight(p)

Xs(list) == [i \in 1..Len(list) |-> list[i].x]
Ys(list) == [i \in 1..Len(list) |-> list[i].y]
\* highlightPoint?.x : undefined (not finite) without a highlight point
HighlightX(p) == IF p.highlightPoint # Null THEN p.highlightPoint.x ELSE NaN
HighlightY(p) == IF p.highlightPoint # Null THEN p.highlightPoint.y ELSE NaN
\* a plausible slip: the events are left out of the x values
allXNoEvents(p) ==
    SelectSeq(Xs(points(p)) \o Xs(referencePoints(p)) \o <<HighlightX(p)>>,
              NumberIsFinite)
allX(p) ==
    SelectSeq(Xs(points(p)) \o Xs(referencePoints(p)) \o <<HighlightX(p)>> \o Xs(p.events),
              NumberIsFinite)
allY(p) ==
    SelectSeq(Ys(points(p)) \o Ys(referencePoints(p)) \o <<HighlightY(p)>>,
              NumberIsFinite)

\* xMin and xMax
xDomain(p) ==
    LET xMin == IF p.xRange # Null THEN p.xRange.min ELSE MathMin(allX(p))
        xMax == IF p.xRange # Null THEN p.xRange.max ELSE MathMax(allX(p))
    IN  [xMin |-> xMin, xMax |-> IF xMax = xMin THEN NumAdd(xMin, Number(1)) ELSE xMax]

\* a plausible slip: the padding is a fifth of the range
yDomainFifth(p) ==
    LET min == MathMin(allY(p))
        max == MathMax(allY(p))
        range == IF NumSub(max, min) = Number(0) THEN Number(1) ELSE NumSub(max, min)
        pad == NumMul(range, Decimal(2, 1))
    IN  [min |-> NumSub(min, pad), max |-> NumAdd(max, pad)]
\* min and max after the padding
yDomain(p) ==
    LET min == MathMin(allY(p))
        max == MathMax(allY(p))
        range == IF NumSub(max, min) = Number(0) THEN Number(1) ELSE NumSub(max, min)
        pad == NumMul(range, Decimal(18, 2))
    IN  [min |-> NumSub(min, pad), max |-> NumAdd(max, pad)]

\* a plausible slip: the y test is left out of the filter
curvePathsNoFiniteTest(p) ==
    LET xMin == xDomain(p).xMin
        xMax == xDomain(p).xMax
        filtered(curve) ==
            SelectSeq(curve.points, LAMBDA point : NumLeq(xMin, point.x) /\ NumLeq(point.x, xMax))
    IN  SelectSeq([c \in 1..Len(p.referenceCurves) |->
                      [key |-> p.referenceCurves[c].key, d |-> filtered(p.referenceCurves[c])]],
                  LAMBDA path : path.d # <<>>)
\* the paths of the reference curves; a curve without a point left gives null
\* and is filtered out
curvePaths(p) ==
    LET xMin == xDomain(p).xMin
        xMax == xDomain(p).xMax
        filtered(curve) ==
            SelectSeq(curve.points,
                      LAMBDA point : /\ NumLeq(xMin, point.x) /\ NumLeq(point.x, xMax)
                                     /\ NumberIsFinite(point.y))
    IN  SelectSeq([c \in 1..Len(p.referenceCurves) |->
                      [key |-> p.referenceCurves[c].key, d |-> filtered(p.referenceCurves[c])]],
                  LAMBDA path : path.d # <<>>)

\* the markers: each one is drawn at xFor(event.x) + (event.offset ?? 0)
markers(p) ==
    [index \in 1..Len(p.events) |->
        [at |-> p.events[index].x,
         shift |-> IF "offset" \in DOMAIN p.events[index] THEN p.events[index].offset ELSE 0,
         type |-> p.events[index].type]]

MetricChart(p) ==
    IF ~hasRenderableData(p)
    THEN [placeholder |-> TRUE]
    ELSE [placeholder |-> FALSE,
          xMin |-> xDomain(p).xMin, xMax |-> xDomain(p).xMax,
          min |-> yDomain(p).min, max |-> yDomain(p).max,
          line |-> points(p),
          curvePaths |-> curvePaths(p),
          markers |-> markers(p)]

\* -- the props of the run ------------------------------------------------
MaxValues == 2

ChartYs == {Number(4), Decimal(75, 1), NaN}
ChartXs == {Number(2), Number(5), NaN}
ValueLists == SeqsUpTo(ChartYs, MaxValues)
XValueChoices(values) ==
    {Null} \cup {[array |-> a] : a \in {b \in SeqsUpTo(ChartXs, MaxValues) : Len(b) = Len(values)}}
XRanges ==
    {Null, [min |-> Number(3), max |-> Number(6)], [min |-> Number(5), max |-> Number(5)]}
CurveLists ==
    { <<>>,
      << [key |-> "c1", points |-> <<>>] >>,
      << [key |-> "c1", points |-> << [x |-> Number(1), y |-> Number(3)],
                                      [x |-> Number(5), y |-> NaN],
                                      [x |-> Number(4), y |-> Number(9)] >>] >>,
      << [key |-> "c1", points |-> << [x |-> Number(8), y |-> Number(3)] >>],
         [key |-> "c2", points |-> << [x |-> Number(6), y |-> Decimal(35, 1)],
                                      [x |-> Number(3), y |-> Number(3)] >>] >>,
      << [key |-> "c1", points |-> << [x |-> Number(4), y |-> NaN] >>] >>,
      << [key |-> "c1", points |-> << [x |-> NaN, y |-> Number(4)] >>] >> }
HighlightPoints ==
    {Null, [x |-> Number(7), y |-> Number(1)], [x |-> Number(7), y |-> NaN],
     [x |-> NaN, y |-> Number(1)]}
Visit(ageMonths, growthInjection, suppressionInjection) ==
    [ageMonths |-> Number(ageMonths), growthInjection |-> growthInjection,
     suppressionInjection |-> suppressionInjection]
EventVisitLists ==
    { <<>>,
      << Visit(9, TRUE, TRUE) >>,
      << Visit(0, TRUE, FALSE), Visit(9, FALSE, FALSE) >>,
      << Visit(4, TRUE, FALSE), Visit(4, FALSE, TRUE) >>,
      << Visit(4, TRUE, TRUE), Visit(4, TRUE, FALSE) >> }

ChartInit ==
    /\ \E values \in ValueLists, eventVisits \in EventVisitLists :
       \E xValues \in XValueChoices(values) :
          props \in [values : {values}, xValues : {xValues}, xRange : XRanges,
                     referenceCurves : CurveLists, highlightPoint : HighlightPoints,
                     events : {injectionEvents(eventVisits)}]
    /\ scene = Null

RenderMetricChart ==
    /\ scene = Null
    /\ scene' = MetricChart(props)
    /\ UNCHANGED <<props, notChart>>

ChartNext == RenderMetricChart

(* ---- Part IV: the properties ------------------------------------------ *)

Drawn == scene # Null /\ ~scene.placeholder
Finite(v) == v \notin {NaN, PosInfinity, NegInfinity}
\* a finite number in thousandths (no number of the runs has more decimals)
Thousandths(v) == v.mant * Pow10(3 - v.scale)
Least(S) == CHOOSE v \in S : \A w \in S : Thousandths(v) <= Thousandths(w)
Greatest(S) == CHOOSE v \in S : \A w \in S : Thousandths(w) <= Thousandths(v)

\* the x of visit point i: the matching entry of xValues, or the index
VisitX(i) == IF props.xValues = Null THEN Number(i - 1) ELSE props.xValues.array[i]
\* the visit points the chart plots: those with finite x and finite y
VisitPoints == {i \in 1..Len(props.values) : Finite(VisitX(i)) /\ Finite(props.values[i])}
ReferencePointSet ==
    UNION { {props.referenceCurves[c].points[i] : i \in 1..Len(props.referenceCurves[c].points)} :
              c \in 1..Len(props.referenceCurves) }
HighlightSet == IF props.highlightPoint = Null THEN {} ELSE {props.highlightPoint}
FiniteXs ==
    { v \in {VisitX(i) : i \in VisitPoints}
            \cup {q.x : q \in ReferencePointSet \cup HighlightSet}
            \cup {props.events[i].x : i \in 1..Len(props.events)} : Finite(v) }
FiniteYs ==
    { v \in {props.values[i] : i \in VisitPoints}
            \cup {q.y : q \in ReferencePointSet \cup HighlightSet} : Finite(v) }

\* C13: the x-domain of a drawn chart is the explicit xRange when one is
\* supplied, otherwise the least and the greatest of all finite x values of
\* visit points, reference points, highlight point and events; when the two
\* ends are equal the upper end is the lower end plus 1 (width exactly 1).
C13_XDomain ==
    (Drawn /\ (props.xRange # Null \/ FiniteXs # {})) =>
        LET lo == IF props.xRange # Null THEN props.xRange.min ELSE Least(FiniteXs)
            hi == IF props.xRange # Null THEN props.xRange.max ELSE Greatest(FiniteXs)
        IN  /\ Finite(scene.xMin) /\ Finite(scene.xMax)
            /\ Thousandths(scene.xMin) = Thousandths(lo)
            /\ Thousandths(scene.xMax) =
                  IF Thousandths(lo) = Thousandths(hi) THEN Thousandths(lo) + 1000
                  ELSE Thousandths(hi)
\* no xRange and two visit points of the same x, the only finite x there is:
\* the domain has width 1
C13_Witness ==
    /\ Drawn /\ props.xRange = Null
    /\ Cardinality(VisitPoints) = 2 /\ Cardinality(FiniteXs) = 1
    /\ scene.xMin \in FiniteXs
    /\ Thousandths(scene.xMax) - Thousandths(scene.xMin) = 1000

\* C14: the y-domain of a drawn chart is [lo - 0.18 r, hi + 0.18 r], lo and hi
\* the least and the greatest finite y of visit points, reference points and
\* highlight point, r = hi - lo, but r = 1 when hi = lo: a single value v
\* gives [v - 0.18, v + 0.18].
C14_YDomain ==
    (Drawn /\ FiniteYs # {}) =>
        LET lo == Thousandths(Least(FiniteYs))
            hi == Thousandths(Greatest(FiniteYs))
            r == IF hi = lo THEN 1000 ELSE hi - lo
        IN  /\ Finite(scene.min) /\ Finite(scene.max)
            /\ 100 * Thousandths(scene.min) = 100 * lo - 18 * r
            /\ 100 * Thousandths(scene.max) = 100 * hi + 18 * r
            /\ Cardinality(FiniteYs) = 1 =>
                  /\ Thousandths(scene.min) = lo - 180
                  /\ Thousandths(scene.max) = lo + 180
\* a chart of the single value 7.5 has the domain [7.32, 7.68]
C14_Witness ==
    /\ Drawn
    /\ FiniteYs = {Decimal(75, 1)}
    /\ scene.min = Decimal(732, 2) /\ scene.max = Decimal(768, 2)

\* the points of curve c that lie in the x-domain and have a finite y
Surviving(c) ==
    {i \in 1..Len(props.referenceCurves[c].points) :
        LET q == props.referenceCurves[c].points[i]
        IN  /\ Finite(q.x) /\ Finite(q.y) /\ Finite(scene.xMin) /\ Finite(scene.xMax)
            /\ Thousandths(scene.xMin) <= Thousandths(q.x)
            /\ Thousandths(q.x) <= Thousandths(scene.xMax)}
\* the j-th of a set of positions
Nth(S, j) == CHOOSE i \in S : Cardinality({k \in S : k < i}) = j - 1
PathsOf(c) ==
    {k \in 1..Len(scene.curvePaths) : scene.curvePaths[k].key = props.referenceCurves[c].key}

\* C15: every point of a rendered reference-curve path has xMin <= x <= xMax
\* and a finite y, the points of a path are the surviving points of its curve
\* in input order, and a curve with no surviving point has no path.
C15_CurveFilter ==
    Drawn =>
        \A c \in 1..Len(props.referenceCurves) :
            IF Surviving(c) = {}
            THEN PathsOf(c) = {}
            ELSE /\ Cardinality(PathsOf(c)) = 1
                 /\ \A k \in PathsOf(c) :
                       /\ Len(scene.curvePaths[k].d) = Cardinality(Surviving(c))
                       /\ \A j \in 1..Len(scene.curvePaths[k].d) :
                             scene.curvePaths[k].d[j] =
                                props.referenceCurves[c].points[Nth(Surviving(c), j)]
\* one curve lost a point outside the domain or with a non-finite y and kept
\* another, and one curve gave no path
C15_Witness ==
    /\ Drawn
    /\ \E c \in 1..Len(props.referenceCurves) :
          /\ Surviving(c) # {}
          /\ Cardinality(Surviving(c)) < Len(props.referenceCurves[c].points)
          /\ \E i \in 1..Len(props.referenceCurves[c].points) :
                props.referenceCurves[c].points[i].y = NaN
    /\ Len(scene.curvePaths) = 1

\* C16 (as claimed): whenever exactly two event markers of the chart share
\* an x, one is shifted left and the other right by the same amount, also
\* when the two events come from two visits of the same age in months.
C16_TwoMarkersApart ==
    Drawn =>
        \A i, j \in 1..Len(scene.markers) :
            ( /\ i < j
              /\ scene.markers[i].at = scene.markers[j].at
              /\ Cardinality({k \in 1..Len(scene.markers) :
                                 scene.markers[k].at = scene.markers[i].at}) = 2 ) =>
                /\ scene.markers[i].shift + scene.markers[j].shift = 0
                /\ scene.markers[i].shift # 0

\* C17: the chart shows the empty-state placeholder exactly when there is no
\* visit point with finite x and y, no reference point in any curve and no
\* highlight point with finite x and y; otherwise it draws the coordinate
\* system.
C17_PlaceholderIffNoData ==
    scene # Null =>
        (scene.placeholder <=>
            /\ VisitPoints = {}
            /\ ReferencePointSet = {}
            /\ \A h \in HighlightSet : ~(Finite(h.x) /\ Finite(h.y)))
\* the placeholder for values that are all dropped, a curve without points
\* and a highlight point whose x or y is not finite
C17_Witness ==
    /\ scene # Null /\ scene.placeholder
    /\ props.values # <<>> /\ props.referenceCurves # <<>> /\ props.highlightPoint # Null

(***************************************************************************)
(* Part V.  The visits of the page                                         *)
(*                                                                         *)
(* A timestamp text (created_at, visit.date) is the record [day, hour] of  *)
(* its calendar fields, days counted from some first day; the zone offset  *)
(* is a constant shift and is left out.  A row keeps id, created_at,       *)
(* height_cm, weight_kg, bmi and age_months (numeric columns arrive as     *)
(* numbers or null); the two injection flags are left out.                 *)
(* The ids of the model are 1, 2, ... in order of creation; the code never *)
(* looks at that order (the store's ids are random uuids).                 *)
(***************************************************************************)

\* no id: undefined, null
NoId == 0
NotShown == [shown |-> FALSE]

\* new Date(text).getTime(), in hours
GetTime(date) == date.day * 24 + date.hour
\* Math.round(n / d) for d > 0: the nearest integer, a half goes up
MathRound(n, d) == (2 * n + d) \div (2 * d)
\* a plausible slip: whole days are counted with Math.floor
diffDaysFloor(from, to) ==
    LET start == GetTime(from)
        end == GetTime(to)
        days == (end - start) \div 24
    IN  IF days > 1 THEN days ELSE 1
diffDays(from, to) ==
    LET start == GetTime(from)
        end == GetTime(to)
        days == MathRound(end - start, 24)
    IN  IF days > 1 THEN days ELSE 1

\* toNumber(value): 0 for null, a number as it is
toNumber(v) == IF v = Null THEN Number(0) ELSE v

\* a / b for finite a and b: infinite or NaN when b is 0, otherwise the
\* quotient (exact when it has at most six decimals)
NumDiv(a, b) ==
    IF b.mant = 0
    THEN (IF a.mant = 0 THEN NaN ELSE IF a.mant > 0 THEN PosInfinity ELSE NegInfinity)
    ELSE Decimal((a.mant * Pow10(b.scale + 6)) \div (b.mant * Pow10(a.scale)), 6)
\* weight / Math.pow(height / 100, 2) for finite height and weight
Bmi(height, weight) ==
    LET metres == NumDiv(height, Number(100))
    IN  NumDiv(weight, Decimal(metres.mant * metres.mant, 2 * metres.scale))

\* n.toFixed(1): the text of n with one decimal, kept as its number of
\* tenths; NaN and the infinities are written by name
toFixed1(n) ==
    IF ~NumberIsFinite(n) THEN n
    ELSE IF n.scale <= 1 THEN [tenths |-> n.mant * Pow10(1 - n.scale)]
    ELSE IF n.mant >= 0 THEN [tenths |-> MathRound(n.mant, Pow10(n.scale - 1))]
    ELSE [tenths |-> 0 - MathRound(0 - n.mant, Pow10(n.scale - 1))]

mapVisitRows(fetched) ==
    [i \in 1..Len(fetched) |->
        [id |-> fetched[i].id, date |-> fetched[i].created_at,
         height |-> toNumber(fetched[i].height_cm),
         weight |-> toNumber(fetched[i].weight_kg),
         bmi |-> toNumber(fetched[i].bmi),
         ageMonths |-> fetched[i].age_months]]

\* [...mappedVisits].sort((a, b) => time(a) - time(b)): the sort is stable
Front(list) == SubSeq(list, 1, Len(list) - 1)
Last(list) == list[Len(list)]
RECURSIVE SortedInsert(_, _)
SortedInsert(sorted, visit) ==
    IF sorted = <<>> THEN <<visit>>
    ELSE IF GetTime(Last(sorted).date) - GetTime(visit.date) <= 0
         THEN Append(sorted, visit)
         ELSE Append(SortedInsert(Front(sorted), visit), Last(sorted))
RECURSIVE SortByDate(_)
SortByDate(list) ==
    IF list = <<>> THEN <<>> ELSE SortedInsert(SortByDate(Front(list)), Last(list))

\* a plausible slip: the rows are taken in the order of the fetch
setVisitStateFromRowsUnsorted(fetched, focus) ==
    LET mappedVisits == mapVisitRows(fetched)
    IN  IF Len(mappedVisits) = 0
        THEN [visits |-> <<>>, currentVisit |-> Null, previousVisit |-> Null]
        ELSE LET sorted == mappedVisits
                 found == IF focus # NoId
                          THEN FindIndex({i \in 1..Len(sorted) : sorted[i].id = focus})
                          ELSE Len(sorted) - 1
                 index == IF found < 0 THEN Len(sorted) - 1 ELSE found
             IN  [visits |-> sorted,
                  currentVisit |-> sorted[index + 1],
                  previousVisit |-> IF index > 0 THEN sorted[index] ELSE Null]
\* the three states setVisitStateFromRows sets; index is 0-based as in the code
setVisitStateFromRows(fetched, focus) ==
    LET mappedVisits == mapVisitRows(fetched)
    IN  IF Len(mappedVisits) = 0
        THEN [visits |-> <<>>, currentVisit |-> Null, previousVisit |-> Null]
        ELSE LET sorted == SortByDate(mappedVisits)
                 found == IF focus # NoId
                          THEN FindIndex({i \in 1..Len(sorted) : sorted[i].id = focus})
                          ELSE Len(sorted) - 1
                 index == IF found < 0 THEN Len(sorted) - 1 ELSE found
             IN  [visits |-> sorted,
                  currentVisit |-> sorted[index + 1],
                  previousVisit |-> IF index > 0 THEN sorted[index] ELSE Null]

\* the render after the states are set: the elapsed days of the status card
ElapsedDays(current, previous) ==
    IF current # Null /\ previous # Null
    THEN [shown |-> TRUE, days |-> diffDays(previous.date, current.date)]
    ELSE NotShown

\* the current-status card: shown for a patient with a current visit
StatusCard(patient, current) ==
    IF patient # Null /\ current # Null
    THEN [shown |-> TRUE,
          height |-> toFixed1(current.height),
          weight |-> toFixed1(current.weight),
          bmi |-> toFixed1(current.bmi)]
    ELSE NotShown
\* historyVisits: the visits sorted descending by date (stable), the first
\* five of them
RECURSIVE SortedInsertDescending(_, _)
SortedInsertDescending(sorted, visit) ==
    IF sorted = <<>> THEN <<visit>>
    ELSE IF GetTime(visit.date) - GetTime(Last(sorted).date) <= 0
         THEN Append(sorted, visit)
         ELSE Append(SortedInsertDescending(Front(sorted), visit), Last(sorted))
RECURSIVE SortByDateDescending(_)
SortByDateDescending(list) ==
    IF list = <<>> THEN <<>>
    ELSE SortedInsertDescending(SortByDateDescending(Front(list)), Last(list))
historyVisits(list) ==
    LET sorted == SortByDateDescending(list)
    IN  SubSeq(sorted, 1, IF Len(sorted) < 5 THEN Len(sorted) ELSE 5)
\* one line of the recent-visit list
HistoryLine(visit) ==
    [id |-> visit.id,
     height |-> toFixed1(visit.height),
     weight |-> toFixed1(visit.weight),
     bmi |-> toFixed1(visit.bmi)]

\* setVisitStateFromRows(fetched, focus) and the render that follows
ApplyVisitState(fetched, focus) ==
    LET state == setVisitStateFromRows(fetched, focus)
    IN  /\ visitRows' = fetched
        /\ focusId' = focus
        /\ visits' = state.visits
        /\ currentVisit' = state.currentVisit
        /\ previousVisit' = state.previousVisit
        /\ elapsedDays' = ElapsedDays(state.currentVisit, state.previousVisit)

\* -- what the form can hold ----------------------------------------------
MaxVisits == 2
\* the days a visit date can name
VisitDays == {0, 1}

\* the visit-date field: empty, a text that is no date, or a day
VisitDateInputs ==
    {[kind |-> "empty"], [kind |-> "unparsable"]}
        \cup {[kind |-> "date", day |-> d] : d \in VisitDays}
\* getTodayInputValue(): the page is used on the last of the days
Today == [kind |-> "date", day |-> 1]
\* the Date of a visit day: day 0 is 2024-06-15
DateOfDay(day) == [year |-> 2024, month |-> 5, date |-> 15 + day]

\* resident identifiers: born 2020-01-01, and born 2024-07-01 (after every
\* visit day, so parseResidentId refuses it)
ResidentBorn2020 == <<"2", "0", "0", "1", "0", "1", "3", "2", "3", "4", "5", "6", "7">>
ResidentBorn2024 == <<"2", "4", "0", "7", "0", "1", "3", "2", "3", "4", "5", "6", "7">>
NameA == <<"A">>
NameB == <<"B">>

\* the form as handleReset leaves it (and as the page starts with); the chart
\* number stays empty and the two injection boxes unticked throughout
EmptyForm ==
    [name |-> <<>>, residentId |-> <<>>, visitDate |-> Today, height |-> <<>>, weight |-> <<>>]
FilledForm(name, day) ==
    [name |-> name, residentId |-> ResidentBorn2020,
     visitDate |-> [kind |-> "date", day |-> day],
     height |-> <<"1", "0", "0", ".", "0">>, weight |-> <<"2", "0", ".", "0">>]
\* what the user leaves in the form after typing: where visits are saved,
\* edited and deleted, the visits of one child on either day
Forms == { EmptyForm, FilledForm(NameA, 0), FilledForm(NameA, 1) }
\* where visits are only saved: also another name, a weight of 0, a height
\* that is no number, a visit date that is no date, a refused identifier
SubmitForms ==
    { EmptyForm,
      FilledForm(NameA, 0), FilledForm(NameA, 1), FilledForm(NameB, 0),
      [FilledForm(NameA, 0) EXCEPT !.weight = <<"0", ".", "0">>],
      [FilledForm(NameA, 0) EXCEPT !.height = <<"x">>],
      [FilledForm(NameA, 0) EXCEPT !.visitDate = [kind |-> "unparsable"]],
      [FilledForm(NameA, 0) EXCEPT !.residentId = ResidentBorn2024] }
ThePatient == [id |-> 1, name |-> NameA, residentId |-> ResidentBorn2020]

\* -- setVisitStateFromRows on its own: any rows, any focus ---------------
MaxVisitRows == 3

RowTimes ==
    { [day |-> 0, hour |-> 12], [day |-> 0, hour |-> 23],
      [day |-> 1, hour |-> 12], [day |-> 2, hour |-> 0] }
\* the rows: height 100 and weight 20 with the bmi that belongs to them, 20;
\* the rows of midnight were written elsewhere and hold another bmi
Rows ==
    { [id |-> id, created_at |-> at,
       height_cm |-> Number(100), weight_kg |-> Number(20),
       bmi |-> IF at.hour = 0 THEN Number(25) ELSE Number(20),
       age_months |-> 53] :
        id \in 1..MaxVisitRows, at \in RowTimes }
\* lists of rows with distinct ids (id is the primary key), in any order
RowLists ==
    { list \in SeqsUpTo(Rows, MaxVisitRows) :
        \A i, j \in 1..Len(list) : i # j => list[i].id # list[j].id }
\* no focus, the id of a row, or an id that no row has
FocusIds == {NoId} \cup 1..(MaxVisitRows + 1)

NoSubmit == [pc |-> "idle", editingVisitId |-> NoId, visitTimestamp |-> Null, savedVisitId |-> NoId]
NoDelete == [pc |-> "idle", visitId |-> NoId, editingVisitId |-> NoId]

VisitStateInit ==
    /\ visitRows \in RowLists /\ focusId \in FocusIds
    /\ visits = <<>> /\ currentVisit = Null /\ previousVisit = Null
    /\ elapsedDays = NotShown
    /\ vpc = "fetched"
    /\ store = {} /\ nextId = 1
    /\ currentPatient = ThePatient
    /\ editingVisitId = NoId /\ isLoading = FALSE /\ deletingVisitId = NoId
    /\ status = "default"
    /\ submit = NoSubmit /\ del = NoDelete
    /\ form = EmptyForm /\ patients = {}

SetVisitStateFromRows ==
    /\ vpc = "fetched"
    /\ ApplyVisitState(visitRows, focusId)
    /\ vpc' = "set"
    /\ UNCHANGED <<store, nextId, currentPatient, editingVisitId, isLoading, deletingVisitId,
                   status, submit, del, form, patients, notVisit>>

VisitStateNext == SetVisitStateFromRows

\* -- the handlers and the store -----------------------------------------
parseDateInput(v) == IF v.kind = "date" THEN [day |-> v.day] ELSE Null
\* local noon of the visit day, as ISO text
toVisitTimestamp(v) ==
    LET parsed == parseDateInput(v)
    IN  IF parsed = Null THEN Null ELSE [day |-> parsed.day, hour |-> 12]
\* the day of a timestamp, as the date field takes it
toDateInputValue(date) == [kind |-> "date", day |-> date.day]
\* n.toFixed(1) as text
toFixedText(n) ==
    LET tenths == toFixed1(n).tenths
        magnitude == IF tenths < 0 THEN 0 - tenths ELSE tenths
    IN  (IF tenths < 0 THEN <<"-">> ELSE <<>>)
            \o NatToString(magnitude \div 10) \o <<".", DigitChars[(magnitude % 10) + 1]>>

isMutating == isLoading \/ deletingVisitId # NoId

\* the Date the age is reckoned on: the visit date when it parses, else today
visitDateValue(visitDate) ==
    LET parsed == parseDateInput(visitDate)
    IN  DateOfDay(IF parsed = Null THEN Today.day ELSE parsed.day)
\* the status handleResidentChange leaves for the identifier typed
ResidentStatus(v, visitDate) ==
    IF Trim(v) = <<>> THEN "default"
    ELSE IF parseResidentId(v, visitDateValue(visitDate)) = Null THEN "residentFormat"
    ELSE "ageInfo"

\* the onChange handlers of the fields, until the form holds f; a change of
\* the identifier goes through handleResidentChange
ChangeForm(f) ==
    /\ f # form
    /\ form' = f
    /\ status' = IF f.residentId = form.residentId THEN status
                 ELSE ResidentStatus(f.residentId, form.visitDate)
    /\ UNCHANGED <<visitStateVars, vpc, store, nextId, currentPatient, editingVisitId,
                   isLoading, deletingVisitId, submit, del, patients, notVisit>>

\* select(...).eq("patient_id", id).order("created_at", {ascending: true}):
\* ascending by created_at; the store fixes no order among equal created_at
OrderByCreatedAt(tbl) ==
    { list \in [1..Cardinality(tbl) -> tbl] :
        /\ \A i, j \in 1..Cardinality(tbl) : i # j => list[i] # list[j]
        /\ \A i, j \in 1..Cardinality(tbl) :
              i < j => GetTime(list[i].created_at) <= GetTime(list[j].created_at) }

\* the patient row a Patient of the page stands for
PatientRowOf(patient) ==
    [id |-> patient.id, name |-> patient.name, resident_id |-> patient.residentId]
\* where handleSubmit first waits for the store: in edit mode at the update
\* of the patient when the name differs, else at the visit; otherwise at the
\* lookup of the patient
FirstAwait(name) ==
    IF editingVisitId = NoId THEN "patient"
    ELSE IF currentPatient.name # name THEN "patientUpdate"
    ELSE "visit"

\* a plausible slip: setIsLoading(true) stands before the validation
RefuseLoading(message) ==
    status' = message /\ isLoading' = TRUE /\ UNCHANGED submit
\* setStatus(the error message); return
Refuse(message) ==
    status' = message /\ UNCHANGED <<isLoading, submit>>

\* handleSubmit up to its first await: the validation and setIsLoading(true).
\* The submit button is disabled while isMutating; Supabase is configured.
HandleSubmit ==
    /\ ~isLoading
    /\ deletingVisitId = NoId
    /\ LET name == Trim(form.name)
           residentRaw == Trim(form.residentId)
           height == ParseFloat(form.height)
           weight == ParseFloat(form.weight)
           visitParsed == parseDateInput(form.visitDate)
           parsed == IF visitParsed = Null THEN Null
                     ELSE parseResidentId(residentRaw, DateOfDay(visitParsed.day))
       IN  IF \/ name = <<>> \/ residentRaw = <<>> \/ form.visitDate.kind = "empty"
              \/ height = NaN \/ weight = NaN
           THEN Refuse("required")
           ELSE IF visitParsed = Null
           THEN Refuse("visitDate")
           ELSE IF parsed = Null
           THEN Refuse("residentId")
           ELSE IF editingVisitId # NoId /\ currentPatient = Null
           THEN Refuse("saveError")
           ELSE /\ isLoading' = TRUE
                /\ submit' = [pc |-> FirstAwait(name),
                              editingVisitId |-> editingVisitId,
                              name |-> name,
                              residentId |-> normalizeResidentId(residentRaw),
                              height |-> height, weight |-> weight,
                              ageMonths |-> parsed.ageMonths,
                              visitTimestamp |-> toVisitTimestamp(form.visitDate),
                              patientRow |-> IF editingVisitId # NoId
                                             THEN PatientRowOf(currentPatient) ELSE Null,
                              savedVisitId |-> NoId]
                /\ UNCHANGED status
    /\ UNCHANGED <<visitStateVars, vpc, store, nextId, currentPatient, editingVisitId,
                   deletingVisitId, del, form, patients, notVisit>>

\* the lookup of the patient by resident id returns (maybeSingle): no row,
\* then the patient is to be inserted; a row, to be updated when the name
\* differs
SubmitPatientOk ==
    /\ submit.pc = "patient"
    /\ LET matches == {row \in patients : row.resident_id = submit.residentId}
       IN  IF matches = {}
           THEN submit' = [submit EXCEPT !.pc = "patientInsert"]
           ELSE \E row \in matches :
                   submit' = [submit EXCEPT
                                 !.pc = IF row.name # submit.name THEN "patientUpdate" ELSE "visit",
                                 !.patientRow = row]
    /\ UNCHANGED <<visitStateVars, vpc, store, nextId, currentPatient, editingVisitId,
                   isLoading, deletingVisitId, status, del, form, patients, notVisit>>

\* the insert or the update of the patient is committed and returns the row
SubmitPatientWriteOk ==
    /\ submit.pc \in {"patientInsert", "patientUpdate"}
    /\ IF submit.pc = "patientInsert"
       THEN LET created == [id |-> Cardinality(patients) + 1, name |-> submit.name,
                            resident_id |-> submit.residentId]
            IN  /\ \A row \in patients : row.resident_id # submit.residentId
                /\ patients' = patients \cup {created}
                /\ submit' = [submit EXCEPT !.pc = "visit", !.patientRow = created]
       ELSE LET updated == [submit.patientRow EXCEPT !.name = submit.name]
            IN  /\ \E row \in patients : row.id = submit.patientRow.id
                /\ patients' = {IF row.id = updated.id THEN [row EXCEPT !.name = submit.name]
                                ELSE row : row \in patients}
                /\ submit' = [submit EXCEPT !.pc = "visit", !.patientRow = updated]
    /\ UNCHANGED <<visitStateVars, vpc, store, nextId, currentPatient, editingVisitId,
                   isLoading, deletingVisitId, status, del, form, notVisit>>

\* the columns handleSubmit writes
VisitColumns ==
    [created_at |-> submit.visitTimestamp,
     height_cm |-> submit.height, weight_kg |-> submit.weight,
     bmi |-> Bmi(submit.height, submit.weight),
     age_months |-> submit.ageMonths]
WithId(id, columns) ==
    [id |-> id, created_at |-> columns.created_at,
     height_cm |-> columns.height_cm, weight_kg |-> columns.weight_kg,
     bmi |-> columns.bmi, age_months |-> columns.age_months]

\* the visit is written: update of the edited row, or insert of a new one
SubmitVisitOk ==
    /\ submit.pc = "visit"
    /\ IF submit.editingVisitId # NoId
       THEN /\ \E row \in store : row.id = submit.editingVisitId
            /\ store' = {IF row.id = submit.editingVisitId
                         THEN WithId(row.id, VisitColumns) ELSE row : row \in store}
            /\ submit' = [submit EXCEPT !.pc = "fetch", !.savedVisitId = submit.editingVisitId]
            /\ UNCHANGED nextId
       ELSE /\ nextId <= MaxVisits
            /\ store' = store \cup {WithId(nextId, VisitColumns)}
            /\ submit' = [submit EXCEPT !.pc = "fetch", !.savedVisitId = nextId]
            /\ nextId' = nextId + 1
    /\ UNCHANGED <<visitStateVars, vpc, currentPatient, editingVisitId, isLoading,
                   deletingVisitId, status, del, form, patients, notVisit>>

\* the visits are fetched: the states are set, finally setIsLoading(false)
SubmitFetchOk ==
    /\ submit.pc = "fetch"
    /\ \E fetched \in OrderByCreatedAt(store) : ApplyVisitState(fetched, submit.savedVisitId)
    /\ currentPatient' = [id |-> submit.patientRow.id, name |-> submit.patientRow.name,
                          residentId |-> submit.patientRow.resident_id]
    /\ status' = IF submit.editingVisitId # NoId THEN "edited" ELSE "saved"
    /\ editingVisitId' = IF submit.editingVisitId # NoId THEN NoId ELSE editingVisitId
    /\ isLoading' = FALSE
    /\ submit' = NoSubmit
    /\ UNCHANGED <<vpc, store, nextId, deletingVisitId, del, form, patients, notVisit>>

\* a plausible slip: setIsLoading(false) stands at the end of the try block
SubmitStepFailNoFinally ==
    /\ submit.pc \in {"patient", "patientInsert", "patientUpdate", "visit", "fetch"}
    /\ status' = "saveError"
    /\ submit' = NoSubmit
    /\ UNCHANGED <<visitStateVars, vpc, store, nextId, currentPatient, editingVisitId,
                   isLoading, deletingVisitId, del, form, patients, notVisit>>
\* a plausible slip: the catch block takes back the patient it created
SubmitStepFailRollsBack ==
    /\ submit.pc \in {"patient", "patientInsert", "patientUpdate", "visit", "fetch"}
    /\ status' = "saveError"
    /\ isLoading' = FALSE
    /\ submit' = NoSubmit
    /\ patients' = IF submit.editingVisitId = NoId /\ submit.pc = "visit" THEN {} ELSE patients
    /\ UNCHANGED <<visitStateVars, vpc, store, nextId, currentPatient, editingVisitId,
                   deletingVisitId, del, form, notVisit>>
\* a storage call of handleSubmit reports an error: catch, finally
SubmitStepFail ==
    /\ submit.pc \in {"patient", "patientInsert", "patientUpdate", "visit", "fetch"}
    /\ status' = "saveError"
    /\ isLoading' = FALSE
    /\ submit' = NoSubmit
    /\ UNCHANGED <<visitStateVars, vpc, store, nextId, currentPatient, editingVisitId,
                   deletingVisitId, del, form, patients, notVisit>>

HandleEditVisit(visit) ==
    /\ currentPatient # Null /\ ~isMutating
    /\ editingVisitId' = visit.id
    /\ form' = [name |-> currentPatient.name,
                residentId |-> currentPatient.residentId,
                visitDate |-> toDateInputValue(visit.date),
                height |-> toFixedText(visit.height),
                weight |-> toFixedText(visit.weight)]
    /\ status' = "editing"
    /\ UNCHANGED <<visitStateVars, vpc, store, nextId, currentPatient, isLoading,
                   deletingVisitId, submit, del, patients, notVisit>>

\* a plausible slip: the handler does not look at isMutating
HandleDeleteVisitUnguarded(visitId) ==
    /\ currentPatient # Null
    /\ deletingVisitId' = visitId
    /\ del' = [pc |-> "delete", visitId |-> visitId, editingVisitId |-> editingVisitId]
    /\ UNCHANGED <<visitStateVars, vpc, store, nextId, currentPatient, editingVisitId,
                   isLoading, status, submit, form, patients, notVisit>>
\* handleDeleteVisit up to its first await, the question answered with yes
HandleDeleteVisit(visitId) ==
    /\ currentPatient # Null /\ ~isMutating
    /\ deletingVisitId' = visitId
    /\ del' = [pc |-> "delete", visitId |-> visitId, editingVisitId |-> editingVisitId]
    /\ UNCHANGED <<visitStateVars, vpc, store, nextId, currentPatient, editingVisitId,
                   isLoading, status, submit, form, patients, notVisit>>

DeleteOk ==
    /\ del.pc = "delete"
    /\ store' = {row \in store : row.id # del.visitId}
    /\ del' = [del EXCEPT !.pc = "fetch"]
    /\ UNCHANGED <<visitStateVars, vpc, nextId, currentPatient, editingVisitId, isLoading,
                   deletingVisitId, status, submit, form, patients, notVisit>>

\* a plausible slip: the delete leaves editingVisitId as it is
DeleteFetchOkKeepsEditing ==
    /\ del.pc = "fetch"
    /\ \E fetched \in OrderByCreatedAt(store) : ApplyVisitState(fetched, NoId)
    /\ status' = "deleted"
    /\ deletingVisitId' = NoId
    /\ del' = NoDelete
    /\ UNCHANGED <<vpc, store, nextId, currentPatient, editingVisitId, isLoading, submit,
                   form, patients, notVisit>>
\* a plausible slip: after the delete only the list of visits is set anew
DeleteFetchOkVisitsOnly ==
    /\ del.pc = "fetch"
    /\ \E fetched \in OrderByCreatedAt(store) :
          /\ visitRows' = fetched /\ focusId' = NoId
          /\ visits' = setVisitStateFromRows(fetched, NoId).visits
    /\ UNCHANGED <<currentVisit, previousVisit, elapsedDays>>
    /\ editingVisitId' = IF del.editingVisitId = del.visitId THEN NoId ELSE editingVisitId
    /\ status' = "deleted"
    /\ deletingVisitId' = NoId
    /\ del' = NoDelete
    /\ UNCHANGED <<vpc, store, nextId, currentPatient, isLoading, submit, form, patients,
                   notVisit>>
\* the visits are fetched: the states are set, finally setDeletingVisitId(null)
DeleteFetchOk ==
    /\ del.pc = "fetch"
    /\ \E fetched \in OrderByCreatedAt(store) : ApplyVisitState(fetched, NoId)
    /\ editingVisitId' = IF del.editingVisitId = del.visitId THEN NoId ELSE editingVisitId
    /\ status' = "deleted"
    /\ deletingVisitId' = NoId
    /\ del' = NoDelete
    /\ UNCHANGED <<vpc, store, nextId, currentPatient, isLoading, submit, form, patients,
                   notVisit>>

\* a storage call of handleDeleteVisit reports an error: catch, finally
DeleteStepFail ==
    /\ del.pc \in {"delete", "fetch"}
    /\ status' = "deleteError"
    /\ deletingVisitId' = NoId
    /\ del' = NoDelete
    /\ UNCHANGED <<visitStateVars, vpc, store, nextId, currentPatient, editingVisitId,
                   isLoading, submit, form, patients, notVisit>>

HandleReset ==
    /\ form' = EmptyForm
    /\ status' = "default"
    /\ editingVisitId' = NoId
    /\ UNCHANGED <<visitStateVars, vpc, store, nextId, currentPatient, isLoading,
                   deletingVisitId, submit, del, patients, notVisit>>

VisitNext ==
    \/ \E f \in Forms : ChangeForm(f)
    \/ HandleSubmit
    \/ SubmitPatientOk
    \/ SubmitPatientWriteOk
    \/ SubmitVisitOk
    \/ SubmitFetchOk
    \/ SubmitStepFail
    \/ \E i \in 1..Len(visits) : HandleEditVisit(visits[i])
    \/ \E i \in 1..Len(visits) : HandleDeleteVisit(visits[i].id)
    \/ DeleteOk
    \/ DeleteFetchOk
    \/ DeleteStepFail
    \/ HandleReset

\* a storage call of the handler in flight returns, with a result or an error
SubmitReturns ==
    SubmitStepFail \/ SubmitPatientOk \/ SubmitPatientWriteOk \/ SubmitVisitOk \/ SubmitFetchOk
DeleteReturns == DeleteStepFail \/ DeleteOk \/ DeleteFetchOk

\* the handlers where every storage call succeeds
VisitOkNext ==
    \/ \E f \in Forms : ChangeForm(f)
    \/ HandleSubmit
    \/ SubmitPatientOk
    \/ SubmitPatientWriteOk
    \/ SubmitVisitOk
    \/ SubmitFetchOk
    \/ \E i \in 1..Len(visits) : HandleEditVisit(visits[i])
    \/ \E i \in 1..Len(visits) : HandleDeleteVisit(visits[i].id)
    \/ DeleteOk
    \/ DeleteFetchOk
    \/ HandleReset

\* the form is filled in and submitted; no visit is edited or deleted
SubmitNext ==
    \/ \E f \in SubmitForms : ChangeForm(f)
    \/ HandleSubmit
    \/ SubmitPatientOk
    \/ SubmitPatientWriteOk
    \/ SubmitVisitOk
    \/ SubmitFetchOk
    \/ SubmitStepFail

(* ---- Part V: the properties ------------------------------------------- *)

\* the instant of a timestamp text, in hours
HoursOf(text) == 24 * text.day + text.hour
\* the position of the current visit: that of the focus id when one is given
\* and a fetched row has it, otherwise the last position
CurrentPosition ==
    IF focusId # NoId /\ \E i \in 1..Len(visits) : visits[i].id = focusId
    THEN CHOOSE i \in 1..Len(visits) : visits[i].id = focusId
    ELSE Len(visits)

\* C18: after setVisitStateFromRows, visits holds the fetched rows sorted
\* ascending by timestamp; currentVisit is the visit with the focus id when
\* one is given and found, otherwise the last visit; previousVisit is the
\* entry just before currentVisit, or null when that is the first; with no
\* row visits is empty and both are null.
C18_VisitState ==
    vpc = "set" =>
        IF visitRows = <<>>
        THEN visits = <<>> /\ currentVisit = Null /\ previousVisit = Null
        ELSE /\ Len(visits) = Len(visitRows)
             /\ {<<visits[i].id, visits[i].date>> : i \in 1..Len(visits)} =
                   {<<visitRows[i].id, visitRows[i].created_at>> : i \in 1..Len(visitRows)}
             /\ \A i, j \in 1..Len(visits) :
                   i < j => HoursOf(visits[i].date) <= HoursOf(visits[j].date)
             /\ currentVisit = visits[CurrentPosition]
             /\ previousVisit =
                   IF CurrentPosition = 1 THEN Null ELSE visits[CurrentPosition - 1]
\* rows fetched out of order, the focus on a visit that is neither the first
\* nor the last of the sorted sequence
C18_Witness ==
    /\ vpc = "set"
    /\ \E i, j \in 1..Len(visitRows) :
          i < j /\ HoursOf(visitRows[i].created_at) > HoursOf(visitRows[j].created_at)
    /\ focusId # NoId /\ currentVisit # Null /\ currentVisit.id = focusId
    /\ previousVisit # Null
    /\ currentVisit # visits[Len(visits)]

\* C19 (as claimed): in the visits of the page, two visits with the same
\* timestamp stand in the order in which they were created, after any
\* sequence of inserts and edits.
C19_TiesInCreationOrder ==
    \A i, j \in 1..Len(visits) :
        (i < j /\ HoursOf(visits[i].date) = HoursOf(visits[j].date)) =>
            visits[i].id < visits[j].id

\* C20: diffDays(previous, current) is max(1, round(difference in days)) for
\* every pair of timestamps: never below 1, the nearest whole number of days
\* when that is above 1, and 1 for two timestamps of one calendar day; the
\* status card shows this number for previousVisit and currentVisit.
C20_DiffDays ==
    vpc = "set" =>
        /\ \A i, j \in 1..Len(visits) :
              LET hours == HoursOf(visits[j].date) - HoursOf(visits[i].date)
                  days == diffDays(visits[i].date, visits[j].date)
              IN  /\ days >= 1
                  /\ days > 1 => (24 * days - 12 <= hours /\ hours < 24 * days + 12)
                  /\ days = 1 => hours < 36
                  /\ visits[i].date.day = visits[j].date.day => days = 1
        /\ elapsedDays.shown <=> (currentVisit # Null /\ previousVisit # Null)
        /\ elapsedDays.shown =>
              elapsedDays.days = diffDays(previousVisit.date, currentVisit.date)
\* the card shows 1 day for two visits of one calendar day
C20_Witness ==
    /\ vpc = "set" /\ elapsedDays.shown
    /\ previousVisit.date.day = currentVisit.date.day
    /\ previousVisit.date.hour < currentVisit.date.hour
    /\ elapsedDays.days = 1

\* does the form hold what handleSubmit is to refuse: an empty name, an empty
\* identifier, a visit date that is empty or no date, a height or weight that
\* is no number, an identifier that parseResidentId refuses
ValidationFails(f) ==
    \/ Trim(f.name) = <<>>
    \/ Trim(f.residentId) = <<>>
    \/ f.visitDate.kind # "date"
    \/ ParseFloat(f.height) = NaN
    \/ ParseFloat(f.weight) = NaN
    \/ parseResidentId(f.residentId, DateOfDay(f.visitDate.day)) = Null
ValidationErrors == {"required", "visitDate", "residentId"}

\* C21 (as claimed): wherever the page shows the BMI of a visit next to its
\* height and weight (the current-status card, the lines of the recent-visit
\* list), the BMI shown is weight / (height / 100)^2 of that visit, whatever
\* bmi the store returned for the row.
C21_ShownBmiRecomputed ==
    vpc = "set" =>
        /\ \A i \in 1..Len(historyVisits(visits)) :
              LET visit == historyVisits(visits)[i]
              IN  HistoryLine(visit).bmi = toFixed1(Bmi(visit.height, visit.weight))
        /\ StatusCard(currentPatient, currentVisit).shown =>
              StatusCard(currentPatient, currentVisit).bmi =
                  toFixed1(Bmi(currentVisit.height, currentVisit.weight))

\* C22: when the form fails the validation, handleSubmit sets an error status
\* and returns: no storage operation is issued (the tables are untouched and
\* no call is in flight), the form is unchanged and isLoading stays false.
C22_ValidationFailure ==
    [][(HandleSubmit /\ ValidationFails(form)) =>
          /\ status' \in ValidationErrors
          /\ form' = form
          /\ isLoading' = FALSE
          /\ store' = store /\ patients' = patients
          /\ submit'.pc = "idle"]_vars
\* a filled form with an identifier of a child born after the visit day was
\* submitted and refused
C22_Witness ==
    /\ status = "residentId"
    /\ form = [FilledForm(NameA, 0) EXCEPT !.residentId = ResidentBorn2024]
    /\ ~isLoading /\ submit.pc = "idle" /\ store = {} /\ patients = {}

\* C23: when a storage step of handleSubmit fails, the call ends there: the
\* status is the generic save error, nothing is written in compensation (a
\* patient created or updated before a failed visit insert stays as it is,
\* without a matching visit), the patient and visit states of the page stay
\* as they were, and with no call in flight nothing is written later (no
\* retry).
C23_FailureAfterCommit ==
    [][/\ SubmitStepFail =>
             /\ status' = "saveError"
             /\ submit'.pc = "idle" /\ isLoading' = FALSE
             /\ store' = store /\ patients' = patients
             /\ UNCHANGED <<currentPatient, visits, currentVisit, previousVisit>>
       /\ (submit.pc = "idle" /\ del.pc = "idle") =>
             (store' = store /\ patients' = patients)]_vars
\* the first submit created the patient and failed at the visit insert
C23_Witness ==
    /\ status = "saveError" /\ submit.pc = "idle"
    /\ patients # {} /\ store = {}
    /\ currentPatient = Null /\ visits = <<>> /\ currentVisit = Null

\* C26 (as claimed): every visit row that handleSubmit has inserted or updated
\* has a height above 0 and a weight above 0, a finite bmi, and a whole
\* number of months of age that is not negative, whatever form passed the
\* validation of the handler.
C26_WrittenRowsPositive ==
    \A row \in store :
        /\ NumberIsFinite(row.height_cm) /\ row.height_cm.mant > 0
        /\ NumberIsFinite(row.weight_kg) /\ row.weight_kg.mant > 0
        /\ NumberIsFinite(row.bmi)
        /\ row.age_months \in Nat

\* C27: after any sequence of submits, edits, deletes and resets, successful
\* or failed, visits is sorted ascending by timestamp, currentVisit is null or
\* an element of visits, and previousVisit is null or the element of visits
\* just before currentVisit.
C27_VisitStateConsistent ==
    /\ \A i, j \in 1..Len(visits) :
          i < j => HoursOf(visits[i].date) <= HoursOf(visits[j].date)
    /\ currentVisit = Null => previousVisit = Null
    /\ currentVisit # Null =>
          \E i \in 1..Len(visits) :
              /\ visits[i] = currentVisit
              /\ previousVisit # Null => (i > 1 /\ previousVisit = visits[i - 1])
\* the visit entered first is the later one by date and is the current one
\* (it was edited and saved), the other visit stands before it; then a delete
\* failed
C27_Witness ==
    /\ status = "deleteError"
    /\ Len(visits) = 2 /\ previousVisit # Null
    /\ currentVisit.id < previousVisit.id
    /\ HoursOf(previousVisit.date) < HoursOf(currentVisit.date)

\* C28: a delete and a submit never have storage operations in flight at the
\* same time; while isMutating no visit is taken into the form for editing
\* and no delete starts, and while a delete is in flight no submit starts.
C28_NoOverlap ==
    /\ [](/\ ~(submit.pc # "idle" /\ del.pc # "idle")
          /\ submit.pc # "idle" => isLoading
          /\ del.pc # "idle" => (deletingVisitId # NoId /\ deletingVisitId = del.visitId))
    /\ [][/\ isMutating =>
                /\ editingVisitId' \in {editingVisitId, NoId}
                /\ del.pc = "idle" => del'.pc = "idle"
          /\ (deletingVisitId # NoId /\ submit.pc = "idle") => submit'.pc = "idle"]_vars
\* a delete is in flight while the form holds a visit that could be submitted
C28_Witness ==
    /\ del.pc = "fetch" /\ deletingVisitId # NoId
    /\ ~ValidationFails(form)
    /\ editingVisitId # NoId /\ editingVisitId # deletingVisitId

\* C29: when every storage call returns, every submit that has set isLoading
\* sets it back to false and every delete that has set deletingVisitId sets
\* it back to null, whether the calls succeed or fail.
C29_FlagsCleared ==
    /\ isLoading ~> ~isLoading
    /\ (deletingVisitId # NoId) ~> (deletingVisitId = NoId)
\* the save of an edited visit failed and isLoading is false again
C29_Witness ==
    /\ status = "saveError" /\ ~isLoading /\ deletingVisitId = NoId
    /\ submit.pc = "idle" /\ editingVisitId # NoId /\ store # {}

\* C30: while the storage calls succeed, editingVisitId is null or the id of
\* a visit in visits: it is set only to the id of a listed visit, it is null
\* after the save of an edit, after the delete of that visit and after a
\* reset; and the visit write of a submit made while it was set updates the
\* row of that id and inserts none.
C30_EditingVisitListed ==
    /\ [](editingVisitId # NoId => \E i \in 1..Len(visits) : visits[i].id = editingVisitId)
    /\ [][/\ editingVisitId' \notin {editingVisitId, NoId} =>
                \E i \in 1..Len(visits) : visits[i].id = editingVisitId'
          /\ (submit.pc = "fetch" /\ submit'.pc = "idle" /\ submit.editingVisitId # NoId) =>
                editingVisitId' = NoId
          /\ HandleReset => editingVisitId' = NoId
          /\ (submit.pc = "visit" /\ submit'.pc = "fetch" /\ submit.editingVisitId # NoId) =>
                /\ {row.id : row \in store'} = {row.id : row \in store}
                /\ nextId' = nextId
                /\ submit'.savedVisitId = submit.editingVisitId
                /\ \A row \in store : row.id # submit.editingVisitId => row \in store'
                /\ \E row \in store' :
                      row.id = submit.editingVisitId /\ row.created_at = submit.visitTimestamp]_vars
\* one of two visits is being edited and the other one was deleted
C30_Witness ==
    /\ editingVisitId # NoId /\ status = "deleted"
    /\ Len(visits) = 1 /\ visits[1].id = editingVisitId

(***************************************************************************)
(* Part VI: the reference tables of the page (src/app/page.tsx).           *)
(*                                                                         *)
(* The effect that loads the two tables runs once, when the page is        *)
(* mounted: it sets active and starts loadTable for height and for weight. *)
(* Each load waits for fetch and then for response.json(); the cleanup of  *)
(* the effect sets active to false.  What a load ended with is kept to     *)
(* tell the ways of failing apart.                                         *)
(***************************************************************************)

LoadMetrics == {"height", "weight"}
Failures == {"notOk", "threw", "unparsable"}
\* what /api/growth-table answers for a metric
TableOf(m) ==
    [metric |-> m,
     percentiles |-> <<"50th">>,
     bySex |-> [k \in {"1", "2"} |->
                  [ages |-> <<Number(0), Number(12)>>,
                   percentiles |-> [label \in {"50th"} |-> <<Number(50), Number(75)>>]]]]
TableState(m) == IF m = "height" THEN heightTable ELSE weightTable

\* setHeightTable(v) or setWeightTable(v)
Setter(m, v) ==
    /\ heightTable' = IF m = "height" THEN v ELSE heightTable
    /\ weightTable' = IF m = "weight" THEN v ELSE weightTable
    /\ setCalls' = [setCalls EXCEPT ![m] = setCalls[m] + 1]
NoSetter == UNCHANGED <<heightTable, weightTable, setCalls>>

\* a plausible slip: the catch block calls the setter without looking at active
LoadCatchUnguarded(m, why) ==
    /\ Setter(m, Null)
    /\ load' = [load EXCEPT ![m] = [pc |-> "done", outcome |-> why]]
    /\ UNCHANGED <<active, notTables>>
\* the catch block of loadTable: if (active) setter(null)
LoadCatch(m, why) ==
    /\ IF active THEN Setter(m, Null) ELSE NoSetter
    /\ load' = [load EXCEPT ![m] = [pc |-> "done", outcome |-> why]]
    /\ UNCHANGED <<active, notTables>>

\* fetch returns a response that is ok
FetchOk(m) ==
    /\ load[m].pc = "fetch"
    /\ load' = [load EXCEPT ![m].pc = "json"]
    /\ UNCHANGED <<active, heightTable, weightTable, setCalls, notTables>>
\* fetch returns a response that is not ok: the load throws
FetchNotOk(m) == load[m].pc = "fetch" /\ LoadCatch(m, "notOk")
\* fetch rejects (the network)
FetchThrows(m) == load[m].pc = "fetch" /\ LoadCatch(m, "threw")
\* response.json() returns the table: if (active) setter(data)
JsonOk(m) ==
    /\ load[m].pc = "json"
    /\ IF active THEN Setter(m, TableOf(m)) ELSE NoSetter
    /\ load' = [load EXCEPT ![m] = [pc |-> "done", outcome |-> "loaded"]]
    /\ UNCHANGED <<active, notTables>>
\* a plausible slip: on a body that is no JSON a table is set all the same
JsonThrowsSetsTable(m) ==
    /\ load[m].pc = "json"
    /\ IF active THEN Setter(m, TableOf(m)) ELSE NoSetter
    /\ load' = [load EXCEPT ![m] = [pc |-> "done", outcome |-> "unparsable"]]
    /\ UNCHANGED <<active, notTables>>
\* response.json() rejects: the body is no JSON
JsonThrows(m) == load[m].pc = "json" /\ LoadCatch(m, "unparsable")
\* the cleanup of the effect (the page is unmounted)
Cleanup ==
    /\ active
    /\ active' = FALSE
    /\ UNCHANGED <<load, heightTable, weightTable, setCalls, notTables>>

\* sexKey of the page: of the current patient, else of the form
pageSexKey ==
    getSexKey(IF currentPatient # Null THEN currentPatient.residentId ELSE form.residentId)
\* heightCurves and weightCurves: no curve without table or without sex key
referenceCurves(tbl, key) ==
    IF tbl = Null \/ key = NullKey THEN <<>>
    ELSE IF key \notin DOMAIN tbl.bySex THEN <<>>
    ELSE LET curve == tbl.bySex[key]
             PointsOf(label) ==
                 [j \in 1..Len(curve.ages) |->
                     [x |-> curve.ages[j],
                      y |-> IF j <= Len(curve.percentiles[label])
                            THEN curve.percentiles[label][j] ELSE NaN]]
         IN  [i \in 1..Len(tbl.percentiles) |->
                 [key |-> tbl.percentiles[i],
                  points |-> SelectSeq(PointsOf(tbl.percentiles[i]),
                                       LAMBDA point : NumberIsFinite(point.y))]]
heightCurves == referenceCurves(heightTable, pageSexKey)
weightCurves == referenceCurves(weightTable, pageSexKey)

\* the page after it is mounted: the effect has run, both loads wait for fetch
TablesInit ==
    /\ active = TRUE
    /\ load = [m \in LoadMetrics |-> [pc |-> "fetch", outcome |-> "none"]]
    /\ heightTable = Null /\ weightTable = Null
    /\ setCalls = [m \in LoadMetrics |-> 0]

\* the tables load while a visit is entered and submitted
TablesNext ==
    \/ \E m \in LoadMetrics : FetchOk(m)
    \/ \E m \in LoadMetrics : FetchNotOk(m)
    \/ \E m \in LoadMetrics : FetchThrows(m)
    \/ \E m \in LoadMetrics : JsonOk(m)
    \/ \E m \in LoadMetrics : JsonThrows(m)
    \/ Cleanup
    \/ ChangeForm(FilledForm(NameA, 0))
    \/ HandleSubmit
    \/ SubmitPatientOk
    \/ SubmitPatientWriteOk
    \/ SubmitVisitOk
    \/ SubmitFetchOk
    \/ SubmitStepFail

(* ---- Part VI: the properties ------------------------------------------ *)

\* C24: once the effect is cleaned up (active is false), no load it started
\* calls setHeightTable or setWeightTable, whether its fetch succeeds, answers
\* not-ok or throws, in every interleaving of the two loads and the cleanup.
C24_NoSetterAfterCleanup ==
    [][~active => (setCalls' = setCalls /\ heightTable' = heightTable
                    /\ weightTable' = weightTable)]_vars
\* after the cleanup the height table arrived and the weight load failed:
\* neither setter was called
C24_Witness ==
    /\ ~active
    /\ load["height"].outcome = "loaded" /\ load["weight"].outcome = "notOk"
    /\ setCalls = [m \in LoadMetrics |-> 0]
    /\ heightTable = Null /\ weightTable = Null

\* C25: when the load of a metric has failed (network error, response not
\* ok, unparsable body), the table state of that metric is null and its chart
\* gets no reference curve; and a submit goes on all the same: with both
\* tables failed, a valid form can be submitted and the visit of a submit in
\* flight can be written.
C25_SubmitWithoutTables ==
    /\ \A m \in LoadMetrics :
          load[m].outcome \in Failures =>
              (TableState(m) = Null /\ referenceCurves(TableState(m), pageSexKey) = <<>>)
    /\ (\A m \in LoadMetrics : load[m].outcome \in Failures) =>
          /\ (~isMutating /\ ~ValidationFails(form)) => ENABLED HandleSubmit
          /\ (submit.pc = "visit" /\ nextId <= MaxVisits) => ENABLED SubmitVisitOk
\* both loads have failed, in two different ways, and a visit was saved
C25_Witness ==
    /\ load["height"].outcome = "threw" /\ load["weight"].outcome = "unparsable"
    /\ heightTable = Null /\ weightTable = Null
    /\ heightCurves = <<>> /\ weightCurves = <<>>
    /\ status = "saved" /\ store # {} /\ currentVisit # Null

(***************************************************************************)
(* Specifications: one per part, the other parts at rest.                  *)
(***************************************************************************)

ResIdle ==
    /\ value = <<>>
    /\ referenceDate = [year |-> 2024, month |-> 5, date |-> 15]
    /\ ageInfo = Null
    /\ sexKey = NullKey
    /\ rpc = "done"
CsvIdle ==
    /\ content = <<>>
    /\ table = Null
    /\ cpc = "parsed"

GetIdle ==
    /\ files = [m \in Metrics |-> <<>>]
    /\ cache = [m \in Metrics |-> Null]
    /\ req = [r \in 1..MaxRequests |-> NewRequest]
    /\ reads = [m \in Metrics |-> 0]
    /\ parses = [m \in Metrics |-> 0]

ChartIdle ==
    /\ props = Null
    /\ scene = Null

VisitIdle ==
    /\ visitRows = <<>> /\ focusId = NoId
    /\ visits = <<>> /\ currentVisit = Null /\ previousVisit = Null
    /\ elapsedDays = NotShown
    /\ vpc = "set"
    /\ store = {} /\ nextId = 1
    /\ currentPatient = Null
    /\ editingVisitId = NoId /\ isLoading = FALSE /\ deletingVisitId = NoId
    /\ status = "default"
    /\ submit = NoSubmit /\ del = NoDelete
    /\ form = EmptyForm /\ patients = {}

InitResident == ResInit /\ CsvIdle /\ GetIdle /\ ChartIdle /\ VisitIdle /\ TablesInit
InitCsv == CsvInit /\ ResIdle /\ GetIdle /\ ChartIdle /\ VisitIdle /\ TablesInit
InitGet == GetInit /\ ResIdle /\ CsvIdle /\ ChartIdle /\ VisitIdle /\ TablesInit
InitChart == ChartInit /\ ResIdle /\ CsvIdle /\ GetIdle /\ VisitIdle /\ TablesInit
InitVisitState == VisitStateInit /\ ResIdle /\ CsvIdle /\ GetIdle /\ ChartIdle /\ TablesInit
InitVisits == VisitIdle /\ ResIdle /\ CsvIdle /\ GetIdle /\ ChartIdle /\ TablesInit
InitVisitsFair == VisitIdle /\ ResIdle /\ CsvIdle /\ GetIdle /\ ChartIdle /\ TablesInit
InitVisitsOk == VisitIdle /\ ResIdle /\ CsvIdle /\ GetIdle /\ ChartIdle /\ TablesInit
InitTables == VisitIdle /\ ResIdle /\ CsvIdle /\ GetIdle /\ ChartIdle /\ TablesInit
InitSubmit == VisitIdle /\ ResIdle /\ CsvIdle /\ GetIdle /\ ChartIdle /\ TablesInit

SpecResident == InitResident /\ [][ResNext]_vars
SpecCsv == InitCsv /\ [][CsvNext]_vars
SpecGet == InitGet /\ [][GetNext]_vars
SpecChart == InitChart /\ [][ChartNext]_vars
SpecVisitState == InitVisitState /\ [][VisitStateNext]_vars
SpecVisits == InitVisits /\ [][VisitNext]_vars
SpecSubmit == InitSubmit /\ [][SubmitNext]_vars
SpecVisitsOk == InitVisitsOk /\ [][VisitOkNext]_vars
SpecTables == InitTables /\ [][TablesNext]_vars
\* the storage calls return: a call in flight is not left waiting for ever
SpecVisitsFair ==
    InitVisitsFair /\ [][VisitNext]_vars /\ WF_vars(SubmitReturns) /\ WF_vars(DeleteReturns)

====
